---- MODULE Spec2Model ----
(***************************************************************************)
(* Verification model of scrap-hypatia-lab:                                *)
(*   - HypatiaStub: time-varying topology, store-and-forward queue         *)
(*   - TokenProvider: token issue / validate / receipt                     *)
(*   - run_mode (experiment_isl_tasking): ground-gated and ISL dispatch    *)
(*   - run_trial (experiment_hypatia): transport trial with metrics        *)
(***************************************************************************)
EXTENDS Integers, Sequences, FiniteSets, TLC

(***************************************************************************)
(* Bounds of the model                                                     *)
(***************************************************************************)
MaxSteps == 8        \* run_mode: largest total_steps explored
MaxTTL == 2          \* run_mode: ttl_steps ranges over 0..MaxTTL
MaxHops == 3         \* run_mode: max_hops ranges over 0..MaxHops
MaxRadius == 2       \* run_mode: radius ranges over 0..MaxRadius (grid units)
MaxSeed == 3         \* run_mode: seed ranges over 0..MaxSeed
ModeSats == 4        \* run_mode: n_sats
ModeGround == 1      \* run_mode: n_ground
MaxPackets == 2      \* HypatiaStub alone: packets injected
MaxStubSteps == 3    \* HypatiaStub alone: steps taken
MaxDeadline == 1     \* run_trial: deadline_steps ranges over 0..MaxDeadline
TrialSteps == 2      \* run_trial: steps
TrialSats == 11      \* run_trial: n_sats
InjectPerStep == 1   \* run_trial: inject_per_step
MaxEdges == 3        \* _has_path alone: length of the edge list
MaxWindow == 3       \* _active_edges alone: crosslink_window ranges over 0..MaxWindow
MaxPeriod == 2       \* _active_edges alone: crosslink_period and ring_period range over 1..MaxPeriod

(***************************************************************************)
(* Generic helpers                                                         *)
(***************************************************************************)
Max(a, b) == IF a >= b THEN a ELSE b
Min(a, b) == IF a <= b THEN a ELSE b

Range(s) == {s[i] : i \in DOMAIN s}

RECURSIVE SeqSum(_)
SeqSum(s) == IF s = <<>> THEN 0 ELSE Head(s) + SeqSum(Tail(s))

\* Index of the first maximal element (list.index(max(list)))
IndexOfMax(s) ==
    LET m == CHOOSE x \in Range(s) : \A y \in Range(s) : y <= x
    IN  CHOOSE i \in DOMAIN s : s[i] = m /\ \A j \in DOMAIN s : j < i => s[j] # m

(***************************************************************************)
(* Pseudo-random generator (random.Random): a deterministic function of    *)
(* its state.  The generator is abstracted to a full-period linear         *)
(* congruential generator over RngMod states; random() is the new state    *)
(* read as the fraction state/RngMod, randrange(n) takes its high part.    *)
(***************************************************************************)
RngMod == 32
RngMul == 13
RngInc == 7

RngSeed(seed) == seed % RngMod
RngNext(s) == (RngMul * s + RngInc) % RngMod
\* rng.random(): value (numerator over RngMod) and successor state
RngRandom(s) == [val |-> RngNext(s), rng |-> RngNext(s)]
\* rng.randrange(n) / index used by rng.choice(seq)
RngBelow(s, n) == [val |-> (RngNext(s) * n) \div RngMod, rng |-> RngNext(s)]

\* a^e modulo m, by squaring
RECURSIVE RngPow(_, _, _)
RngPow(a, e, m) ==
    IF e = 0 THEN 1
    ELSE ((IF e % 2 = 1 THEN a ELSE 1) * RngPow((a * a) % m, e \div 2, m)) % m

\* the state a^k * s + c * (a^k - 1) / (a - 1), given ak = a^k modulo RngMod * (a - 1)
RngJump(s, ak) == (ak * s + RngInc * ((ak - 1) \div (RngMul - 1))) % RngMod

\* k successive draws, discarded: RngNext applied k times, in closed form;
\* the generator has full period, so k counts modulo RngMod
RngSkip(s, k) ==
    RngJump(s, RngPow(RngMul, k % RngMod, RngMod * (RngMul - 1)))

(***************************************************************************)
(* Node identifiers: sat-<i> and ground-<i>                                *)
(***************************************************************************)
Sat(i) == <<"sat", i>>
Ground(g) == <<"ground", g>>
IsGround(n) == n[1] = "ground"
IsSat(n) == n[1] = "sat"

RECURSIVE NumStr(_)
NumStr(n) == IF n < 10 THEN <<"0", "1", "2", "3", "4", "5", "6", "7", "8", "9">>[n + 1]
             ELSE NumStr(n \div 10) \o NumStr(n % 10)
\* the node's name, f"sat-{i}" / f"ground-{i}"
NodeName(n) == n[1] \o "-" \o NumStr(n[2])

(***************************************************************************)
(* sample_synthetic_leo: constellation sizes for n_sats satellites         *)
(***************************************************************************)
\* int(round(n * w/10)) with round-half-even
RoundShare(n, w) ==
    LET q == (n * w) \div 10
        r == (n * w) % 10
    IN  IF r < 5 THEN q
        ELSE IF r > 5 THEN q + 1
        ELSE IF q % 2 = 0 THEN q ELSE q + 1

RECURSIVE AdjustCounts(_, _)
AdjustCounts(counts, n) ==
    IF SeqSum(counts) < n
    THEN AdjustCounts([counts EXCEPT ![IndexOfMax(counts)] = @ + 1], n)
    ELSE IF SeqSum(counts) > n
    THEN AdjustCounts([counts EXCEPT ![IndexOfMax(counts)] = @ - 1], n)
    ELSE counts

SyntheticCounts(n) ==
    AdjustCounts(<<RoundShare(n, 1), RoundShare(n, 3), RoundShare(n, 2), RoundShare(n, 4)>>, n)

\* self._constellations: for each constellation (in name order) the list of
\* satellite indices that carry its tag; empty constellations are absent.
Constellations(n) ==
    LET c == SyntheticCounts(n)
        first(k) == SeqSum(SubSeq(c, 1, k - 1))
        members(k) == [j \in 1..c[k] |-> first(k) + j - 1]
    IN  SelectSeq([k \in 1..4 |-> members(k)], LAMBDA m : Len(m) > 0)

(***************************************************************************)
(* HypatiaStub configuration and _active_edges                             *)
(* ring_duty is the rational duty_num/10.                                  *)
(***************************************************************************)
StubConfig(ns, ng, cw, cp, rp, dutynum, cc) ==
    [n_sats |-> ns, n_ground |-> ng, crosslink_window |-> cw,
     crosslink_period |-> cp, ring_period |-> rp, duty_num |-> dutynum,
     constellation_crosslinks |-> cc]

\* variant with the ring always on, for sensitivity checks
DutySteps_Full(cfg) == Max(1, cfg.ring_period)

\* int(self.ring_duty * max(1, self.ring_period))
DutySteps(cfg) == (cfg.duty_num * Max(1, cfg.ring_period)) \div 10

\* the concatenation of the sequences of ss, in order
RECURSIVE Flatten(_)
Flatten(ss) ==
    IF ss = <<>> THEN <<>>
    ELSE IF Len(ss) = 1 THEN ss[1]
    ELSE Flatten(SubSeq(ss, 1, Len(ss) \div 2)) \o
         Flatten(SubSeq(ss, (Len(ss) \div 2) + 1, Len(ss)))

\* for i in range(n_sats): duty-cycled edge (sat-i, sat-(i+1) mod n)
RingEdges(cfg, t) ==
    Flatten([k \in 1..cfg.n_sats |->
        LET i == k - 1
            phase == (t + i) % Max(1, cfg.ring_period)
        IN  IF phase < DutySteps(cfg)
            THEN << <<Sat(i), Sat((i + 1) % cfg.n_sats)>> >>
            ELSE <<>>])

\* variants in which the window turns one step later and in which the ground
\* nodes are spread one satellite apart, for sensitivity checks
WindowStart_Slow(cfg, t) == (t \div (Max(1, cfg.crosslink_period) + 1)) % cfg.n_sats
GroundOffset_One(cfg) == 1

WindowStart(cfg, t) == (t \div Max(1, cfg.crosslink_period)) % cfg.n_sats
GroundOffset(cfg) == Max(1, cfg.n_sats \div Max(1, cfg.n_ground))

\* ground contact windows, in ground-node order
GroundEdges(cfg, t) ==
    Flatten([gk \in 1..cfg.n_ground |->
        LET g == gk - 1
            g_start == (WindowStart(cfg, t) + g * GroundOffset(cfg)) % cfg.n_sats
        IN  [kk \in 1..Max(0, cfg.crosslink_window) |->
                <<Sat((g_start + kk - 1) % cfg.n_sats), Ground(g)>>]])

\* rotating crosslinks sat-i -> sat-(i+w)
CrossEdges(cfg, t) ==
    LET w == Max(2, cfg.crosslink_window)
    IN  [kk \in 1..Max(0, cfg.crosslink_window) |->
            LET i == (WindowStart(cfg, t) + kk - 1) % cfg.n_sats
            IN  <<Sat(i), Sat((i + w) % cfg.n_sats)>>]

\* extra intra-constellation links
ConstellationEdges(cfg, t) ==
    IF cfg.constellation_crosslinks <= 0 THEN <<>>
    ELSE Flatten([c \in 1..Len(Constellations(cfg.n_sats)) |->
        LET members == Constellations(cfg.n_sats)[c]
        IN  IF Len(members) < 2 THEN <<>>
            ELSE Flatten([e \in 1..cfg.constellation_crosslinks |->
                LET extra == e - 1
                    offset == extra + 1
                IN  Flatten([ix \in 1..Len(members) |->
                        LET idx == ix - 1
                            a_idx == members[idx + 1]
                            b_idx == members[((idx + offset) % Len(members)) + 1]
                            phase == (t + a_idx + extra) % Max(1, cfg.ring_period)
                        IN  IF phase < DutySteps(cfg)
                            THEN << <<Sat(a_idx), Sat(b_idx)>> >>
                            ELSE <<>>])])])

ActiveEdges(cfg, t) ==
    RingEdges(cfg, t) \o GroundEdges(cfg, t) \o CrossEdges(cfg, t) \o ConstellationEdges(cfg, t)

(***************************************************************************)
(* _has_path: BFS reachability over an undirected edge list                *)
(***************************************************************************)
\* variant that follows an edge from its first node only, for sensitivity
\* checks
Nbrs_Out(u, edges) == {e[2] : e \in {x \in Range(edges) : x[1] = u}}

Nbrs(u, edges) ==
    {e[2] : e \in {x \in Range(edges) : x[1] = u}} \cup
    {e[1] : e \in {x \in Range(edges) : x[2] = u}}

RECURSIVE Bfs(_, _, _, _)
Bfs(frontier, seen, dst, edges) ==
    IF frontier = {} THEN FALSE
    ELSE LET next == UNION {Nbrs(u, edges) : u \in frontier}
         IN  IF dst \in next THEN TRUE
             ELSE Bfs(next \ seen, seen \cup next, dst, edges)

HasPath(src, dst, edges) ==
    IF src = dst THEN TRUE ELSE Bfs({src}, {src}, dst, edges)

(***************************************************************************)
(* JSON codec (json.dumps(sort_keys=True) / json.loads) over byte strings. *)
(* A byte string is a sequence of one-character symbols; the name of an    *)
(* object key and the service name are abbreviated to one symbol each, and *)
(* numbers are non-negative decimal integers.                              *)
(* Values are tagged: [t |-> "num"|"str"|"list"|"obj", v |-> ...]; an      *)
(* object's v is a function from key (a string's content) to value.        *)
(***************************************************************************)
QUOTE == "\""
Ws == {" ", "\t", "\n", "\r"}
DigitChars == <<"0", "1", "2", "3", "4", "5", "6", "7", "8", "9">>
Digits == Range(DigitChars)
BadByte == "0xFF"      \* a byte that is not valid UTF-8

JNum(n) == [t |-> "num", v |-> n]
JStr(cs) == [t |-> "str", v |-> cs]
JList(vs) == [t |-> "list", v |-> vs]
JObj(f) == [t |-> "obj", v |-> f]
EmptyDict == [k \in {} |-> JNum(0)]

\* dict assignment d[k] = val
DictPut(d, k, val) == [x \in DOMAIN d \cup {k} |-> IF x = k THEN val ELSE d[x]]
\* dict without key k (dict.pop)
DictDel(d, k) == [x \in DOMAIN d \ {k} |-> d[x]]

\* sorted(keys): the keys the program writes, in code-point order of their
\* names; any other key sorts after them
KeyOrder == << <<"allowed_services">>, <<"completed_step">>, <<"max_hops">>,
               <<"radius">>, <<"sat">>, <<"sig">>, <<"target">>, <<"task_id">>,
               <<"valid_from">>, <<"valid_to">> >>

RECURSIVE SetToSeq(_)
SetToSeq(S) == IF S = {} THEN <<>>
               ELSE LET x == CHOOSE y \in S : TRUE IN <<x>> \o SetToSeq(S \ {x})

SortedKeys(d) ==
    SelectSeq(KeyOrder, LAMBDA k : k \in DOMAIN d) \o SetToSeq(DOMAIN d \ Range(KeyOrder))

RECURSIVE NumDigits(_)
NumDigits(n) == IF n < 10 THEN <<DigitChars[n + 1]>>
                ELSE NumDigits(n \div 10) \o <<DigitChars[(n % 10) + 1]>>

\* sep.join(parts)
RECURSIVE JoinSeqs(_, _)
JoinSeqs(parts, sep) ==
    IF parts = <<>> THEN <<>>
    ELSE IF Len(parts) = 1 THEN parts[1]
    ELSE JoinSeqs(SubSeq(parts, 1, Len(parts) \div 2), sep) \o sep \o
         JoinSeqs(SubSeq(parts, (Len(parts) \div 2) + 1, Len(parts)), sep)

RECURSIVE Dumps(_)
Dumps(val) ==
    CASE val.t = "num" -> NumDigits(val.v)
      [] val.t = "str" -> <<QUOTE>> \o val.v \o <<QUOTE>>
      [] val.t = "list" ->
            <<"[">> \o JoinSeqs([i \in 1..Len(val.v) |-> Dumps(val.v[i])], <<",", " ">>) \o <<"]">>
      [] val.t = "obj" ->
            LET ks == SortedKeys(val.v)
            IN  <<"{">> \o
                JoinSeqs([i \in 1..Len(ks) |->
                            <<QUOTE>> \o ks[i] \o <<QUOTE, ":", " ">> \o Dumps(val.v[ks[i]])],
                         <<",", " ">>) \o
                <<"}">>

At(b, p) == IF p >= 1 /\ p <= Len(b) THEN b[p] ELSE "EOF"
ParseFail == [ok |-> FALSE, val |-> JNum(0), pos |-> 0]
Parsed(val, p) == [ok |-> TRUE, val |-> val, pos |-> p]

RECURSIVE SkipWs(_, _)
SkipWs(b, p) == IF At(b, p) \in Ws THEN SkipWs(b, p + 1) ELSE p

RECURSIVE DigitsEnd(_, _)
DigitsEnd(b, p) == IF At(b, p) \in Digits THEN DigitsEnd(b, p + 1) ELSE p

DigitVal(c) == (CHOOSE i \in DOMAIN DigitChars : DigitChars[i] = c) - 1

RECURSIVE NumVal(_)
NumVal(ds) == IF ds = <<>> THEN 0
              ELSE 10 * NumVal(SubSeq(ds, 1, Len(ds) - 1)) + DigitVal(ds[Len(ds)])

\* a number: "0", or a non-zero digit followed by digits
ParseNumber(b, p) ==
    IF At(b, p) = "0" THEN Parsed(JNum(0), p + 1)
    ELSE LET e == DigitsEnd(b, p)
         IN  Parsed(JNum(NumVal(SubSeq(b, p, e - 1))), e)

\* the first of the positions in stops, when it holds a quote
FirstStop(b, stops) ==
    IF stops = {} THEN 0
    ELSE IF b[CHOOSE i \in stops : \A j \in stops : i <= j] = QUOTE
    THEN CHOOSE i \in stops : \A j \in stops : i <= j
    ELSE 0

\* the closing quote of the string whose content starts at p, or 0 when a
\* control character or an escape comes first, or the input ends
StringEnd(b, p) ==
    FirstStop(b, {i \in p..Len(b) : b[i] = QUOTE \/ b[i] \in Ws \ {" "} \/ b[i] = "\\"})

StringAt(b, p, q) ==
    IF q = 0 THEN ParseFail ELSE Parsed(JStr(SubSeq(b, p + 1, q - 1)), q + 1)

\* b[p] is the opening quote
ParseString(b, p) == StringAt(b, p, StringEnd(b, p + 1))

RECURSIVE ParseValue(_, _)
RECURSIVE ParseElems(_, _, _)
RECURSIVE ParseMembers(_, _, _)

ParseValue(b, p) ==
    LET c == At(b, p)
    IN  IF c \in Digits THEN ParseNumber(b, p)
        ELSE IF c = QUOTE THEN ParseString(b, p)
        ELSE IF c = "[" THEN
            LET p1 == SkipWs(b, p + 1)
            IN  IF At(b, p1) = "]" THEN Parsed(JList(<<>>), p1 + 1)
                ELSE ParseElems(b, p1, <<>>)
        ELSE IF c = "{" THEN
            LET p1 == SkipWs(b, p + 1)
            IN  IF At(b, p1) = "}" THEN Parsed(JObj(EmptyDict), p1 + 1)
                ELSE ParseMembers(b, p1, EmptyDict)
        ELSE ParseFail

\* elements of a list, p at the first byte of an element
ParseElems(b, p, acc) ==
    LET r == ParseValue(b, p)
    IN  IF ~r.ok THEN ParseFail
        ELSE LET p2 == SkipWs(b, r.pos)
             IN  IF At(b, p2) = "," THEN ParseElems(b, SkipWs(b, p2 + 1), Append(acc, r.val))
                 ELSE IF At(b, p2) = "]" THEN Parsed(JList(Append(acc, r.val)), p2 + 1)
                 ELSE ParseFail

\* one member of an object, p at the opening quote of its key: the dict with
\* the member stored (a repeated key keeps the last value), whether the
\* object ends after it, and the position that follows
NoMember == [ok |-> FALSE, dict |-> EmptyDict, last |-> FALSE, pos |-> 0]

MemberSep(b, acc, key, val, p2) ==
    IF At(b, p2) = ","
    THEN [ok |-> TRUE, dict |-> DictPut(acc, key, val), last |-> FALSE, pos |-> SkipWs(b, p2 + 1)]
    ELSE IF At(b, p2) = "}"
    THEN [ok |-> TRUE, dict |-> DictPut(acc, key, val), last |-> TRUE, pos |-> p2 + 1]
    ELSE NoMember

MemberEnd(b, acc, key, r) ==
    IF ~r.ok THEN NoMember ELSE MemberSep(b, acc, key, r.val, SkipWs(b, r.pos))

MemberValue(b, acc, key, p1) ==
    IF At(b, p1) # ":" THEN NoMember
    ELSE MemberEnd(b, acc, key, ParseValue(b, SkipWs(b, p1 + 1)))

MemberColon(b, acc, k) ==
    IF ~k.ok THEN NoMember ELSE MemberValue(b, acc, k.val.v, SkipWs(b, k.pos))

ParseMember(b, p, acc) ==
    IF At(b, p) # QUOTE THEN NoMember ELSE MemberColon(b, acc, ParseString(b, p))

NextMember(b, m) ==
    CASE ~m.ok -> ParseFail
      [] m.ok /\ m.last -> Parsed(JObj(m.dict), m.pos)
      [] OTHER -> ParseMembers(b, m.pos, m.dict)

\* members of an object, p at the opening quote of a key
ParseMembers(b, p, acc) == NextMember(b, ParseMember(b, p, acc))

\* json.loads(token_bytes.decode()): [ok, val]
JsonLoads(b) ==
    IF BadByte \in Range(b) THEN [ok |-> FALSE, val |-> JNum(0)]
    ELSE LET r == ParseValue(b, SkipWs(b, 1))
         IN  IF r.ok /\ SkipWs(b, r.pos) = Len(b) + 1
             THEN [ok |-> TRUE, val |-> r.val]
             ELSE [ok |-> FALSE, val |-> JNum(0)]

(***************************************************************************)
(* TokenProvider                                                           *)
(***************************************************************************)
Secret == "experiment-001"

\* hashlib.sha256(secret + raw).hexdigest(): modelled as a collision-free
\* digest, one digest character per input byte, keyed by the secret
HexDigest(secret, raw) == <<"#" \o secret>> \o [i \in 1..Len(raw) |-> "#" \o raw[i]]

MakeTask(id, created, deadline, target, service) ==
    [task_id |-> id, created_step |-> created, deadline_step |-> deadline,
     target |-> target, service |-> service]

Signed(fields) ==
    Dumps(JObj(DictPut(fields, <<"sig">>, JStr(HexDigest(Secret, Dumps(JObj(fields)))))))

\* TokenProvider.issue
Issue(task, max_hops, radius) ==
    LET payload ==
          [k \in { <<"task_id">>, <<"valid_from">>, <<"valid_to">>, <<"max_hops">>,
                   <<"radius">>, <<"target">>, <<"allowed_services">> } |->
             CASE k = <<"task_id">> -> JNum(task.task_id)
               [] k = <<"valid_from">> -> JNum(task.created_step)
               [] k = <<"valid_to">> -> JNum(task.deadline_step)
               [] k = <<"max_hops">> -> JNum(max_hops)
               [] k = <<"radius">> -> JNum(radius)
               [] k = <<"target">> -> JList(<<JNum(task.target[1]), JNum(task.target[2])>>)
               [] k = <<"allowed_services">> -> JList(<<JStr(<<task.service>>)>>)]
    IN  Signed(payload)

Verdict(ok, reason) == [ok |-> ok, reason |-> reason]
Raised == Verdict(FALSE, "raised")

IsNumAt(d, k) == k \in DOMAIN d /\ d[k].t = "num"

\* CheckFields without the validity-window check
CheckFields_NoExpiry(payload, task, hop_count, now_step) ==
    IF ~IsNumAt(payload, <<"max_hops">>) THEN Raised
    ELSE IF hop_count > payload[<<"max_hops">>].v THEN Verdict(FALSE, "hop_limit")
    ELSE IF <<"target">> \notin DOMAIN payload \/ <<"radius">> \notin DOMAIN payload
    THEN Verdict(FALSE, "missing_target")
    ELSE Verdict(TRUE, "ok")

\* lines 59-71: the checks on the payload once the signature matched
CheckFields(payload, task, hop_count, now_step) ==
    IF ~(IsNumAt(payload, <<"valid_from">>) /\ IsNumAt(payload, <<"valid_to">>))
    THEN Raised
    ELSE IF ~(payload[<<"valid_from">>].v <= now_step /\ now_step <= payload[<<"valid_to">>].v)
    THEN Verdict(FALSE, "expired")
    ELSE IF ~IsNumAt(payload, <<"max_hops">>) THEN Raised
    ELSE IF hop_count > payload[<<"max_hops">>].v THEN Verdict(FALSE, "hop_limit")
    ELSE IF ~(<<"allowed_services">> \in DOMAIN payload
              /\ payload[<<"allowed_services">>].t = "list"
              /\ \E i \in DOMAIN payload[<<"allowed_services">>].v :
                    /\ payload[<<"allowed_services">>].v[i].t = "str"
                    /\ payload[<<"allowed_services">>].v[i].v = <<task.service>>)
    THEN Verdict(FALSE, "service_not_allowed")
    ELSE IF <<"target">> \notin DOMAIN payload \/ <<"radius">> \notin DOMAIN payload
    THEN Verdict(FALSE, "missing_target")
    ELSE Verdict(TRUE, "ok")

\* lines 53-57: sig = payload.pop("sig", None); compare with the digest of
\* the re-encoded remainder
SigMatches(full, payload) ==
    /\ <<"sig">> \in DOMAIN full
    /\ full[<<"sig">>].t = "str"
    /\ full[<<"sig">>].v = HexDigest(Secret, Dumps(JObj(payload)))

CheckPayload(full, payload, task, hop_count, now_step) ==
    IF ~SigMatches(full, payload) THEN Verdict(FALSE, "bad_signature")
    ELSE CheckFields(payload, task, hop_count, now_step)

CheckDecoded(dec, task, hop_count, now_step) ==
    IF ~dec.ok THEN Verdict(FALSE, "decode_failed")
    ELSE IF dec.val.t # "obj" THEN Raised        \* payload.pop on a non-dict
    ELSE CheckPayload(dec.val.v, DictDel(dec.val.v, <<"sig">>), task, hop_count, now_step)

\* TokenProvider.validate
Validate(token_bytes, task, hop_count, now_step) ==
    CheckDecoded(JsonLoads(token_bytes), task, hop_count, now_step)

\* TokenProvider.receipt
Receipt(task, sat, now_step) ==
    Signed([k \in { <<"task_id">>, <<"sat">>, <<"completed_step">> } |->
              CASE k = <<"task_id">> -> JNum(task.task_id)
                [] k = <<"sat">> -> JStr(<<NodeName(sat)>>)
                [] k = <<"completed_step">> -> JNum(now_step)])

(***************************************************************************)
(* HypatiaStub: packet queue.  The simulator is the record                 *)
(*   [t, queue, rng, cfg, outage_p, congestion_p, default_ttl_steps];      *)
(* probabilities are numerators over RngMod.                               *)
(***************************************************************************)
\* dict.get(key, default) on a record-shaped dict
MetaGet(meta, key, default) == IF key \in DOMAIN meta THEN meta[key] ELSE default
\* dict[key] = val
FunPut(f, k, v) == [x \in DOMAIN f \cup {k} |-> IF x = k THEN v ELSE f[x]]

HypatiaPacket(src, dst, payload, meta) == [src |-> src, dst |-> dst, payload |-> payload, meta |-> meta]

\* HypatiaStub.__init__ (satellites sampled synthetically: three draws each)
NewStub(seed_rng, cfg, outage_p, congestion_p, ttl_steps) ==
    [t |-> 0, queue |-> <<>>, rng |-> RngSkip(seed_rng, 3 * cfg.n_sats), cfg |-> cfg,
     outage_p |-> outage_p, congestion_p |-> congestion_p, default_ttl_steps |-> ttl_steps]

\* HypatiaStub.inject_packet
InjectPacket(h, pkt) ==
    [h EXCEPT !.queue = Append(@, [pkt |-> pkt, t_inject |-> h.t,
                                   ttl_steps |-> MetaGet(pkt.meta, "ttl_steps", h.default_ttl_steps)])]

\* Decide with the age check left out
Decide_NoTtl(over, path, d1, d2, outage_p, congestion_p) ==
    IF ~path THEN [outcome |-> "keep", draws |-> 0]
    ELSE IF d1 < outage_p THEN [outcome |-> "outage", draws |-> 1]
    ELSE IF d2 < congestion_p THEN [outcome |-> "congestion", draws |-> 2]
    ELSE [outcome |-> "deliver", draws |-> 2]

\* Decide with reachability tested before age
Decide_PathFirst(over, path, d1, d2, outage_p, congestion_p) ==
    IF ~path THEN [outcome |-> "keep", draws |-> 0]
    ELSE IF over THEN [outcome |-> "ttl", draws |-> 0]
    ELSE IF d1 < outage_p THEN [outcome |-> "outage", draws |-> 1]
    ELSE IF d2 < congestion_p THEN [outcome |-> "congestion", draws |-> 2]
    ELSE [outcome |-> "deliver", draws |-> 2]

\* Decide with a draw taken for a packet without a path
Decide_KeepDraws(over, path, d1, d2, outage_p, congestion_p) ==
    IF over THEN [outcome |-> "ttl", draws |-> 0]
    ELSE IF ~path THEN [outcome |-> "keep", draws |-> 1]
    ELSE IF d1 < outage_p THEN [outcome |-> "outage", draws |-> 1]
    ELSE IF d2 < congestion_p THEN [outcome |-> "congestion", draws |-> 2]
    ELSE [outcome |-> "deliver", draws |-> 2]

\* lines 257-280: what happens to one queued packet, given whether it is over
\* age, whether a path exists, and the next two draws of the generator
Decide(over, path, d1, d2, outage_p, congestion_p) ==
    IF over THEN [outcome |-> "ttl", draws |-> 0]
    ELSE IF ~path THEN [outcome |-> "keep", draws |-> 0]
    ELSE IF d1 < outage_p THEN [outcome |-> "outage", draws |-> 1]
    ELSE IF d2 < congestion_p THEN [outcome |-> "congestion", draws |-> 2]
    ELSE [outcome |-> "deliver", draws |-> 2]

\* the record of one packet's examination at step t
Examined(qd, t, over, path, d1, d2, dec) ==
    [pkt |-> qd.pkt, t_inject |-> qd.t_inject, ttl_steps |-> qd.ttl_steps, t |-> t,
     over |-> over, path |-> path, d1 |-> d1, d2 |-> d2, outcome |-> dec.outcome,
     draws |-> dec.draws]

ExamineWith(qd, t, over, path, d1, d2, outage_p, congestion_p) ==
    Examined(qd, t, over, path, d1, d2, Decide(over, path, d1, d2, outage_p, congestion_p))

Examine(qd, h, edges, rng) ==
    ExamineWith(qd, h.t, (h.t - qd.t_inject) > qd.ttl_steps, HasPath(qd.pkt.src, qd.pkt.dst, edges),
                RngNext(rng), RngNext(RngNext(rng)), h.outage_p, h.congestion_p)

\* variant that puts the latest packet in front, for sensitivity checks
Accumulate_Prepend(acc, qd, x) ==
    [keep |-> IF x.outcome = "keep" THEN <<qd>> \o acc.keep ELSE acc.keep,
     trace |-> <<x>> \o acc.trace,
     rng |-> RngSkip(acc.rng, x.draws)]

\* acc = [keep, trace, rng]
Accumulate(acc, qd, x) ==
    [keep |-> IF x.outcome = "keep" THEN Append(acc.keep, qd) ELSE acc.keep,
     trace |-> Append(acc.trace, x),
     rng |-> RngSkip(acc.rng, x.draws)]

\* lines 253-280: the queue is examined front to back
RECURSIVE ProcessLoop(_, _, _, _)
ProcessLoop(queue, acc, h, edges) ==
    IF queue = <<>> THEN acc
    ELSE ProcessLoop(Tail(queue), Accumulate(acc, Head(queue), Examine(Head(queue), h, edges, acc.rng)),
                     h, edges)

\* variant that leaves every examined packet in the queue, for sensitivity
\* checks
Processed_KeepAll(h, acc) == [sim |-> [h EXCEPT !.rng = acc.rng], trace |-> acc.trace]

Processed(h, acc) == [sim |-> [h EXCEPT !.queue = acc.keep, !.rng = acc.rng], trace |-> acc.trace]

\* HypatiaStub._process_queue: the simulator afterwards and the examined
\* packets in order (every outcome but "keep" invokes the callbacks)
ProcessQueue(h) ==
    IF h.queue = <<>> THEN [sim |-> h, trace |-> <<>>]
    ELSE Processed(h, ProcessLoop(h.queue, [keep |-> <<>>, trace |-> <<>>, rng |-> h.rng],
                                  h, ActiveEdges(h.cfg, h.t)))

\* variant that runs the pass before the clock advances, for sensitivity
\* checks
StepSim_PassFirst(h) ==
    [sim |-> [ProcessQueue(h).sim EXCEPT !.t = @ + 1], trace |-> ProcessQueue(h).trace]

\* HypatiaStub.step(1)
StepSim(h) == ProcessQueue([h EXCEPT !.t = @ + 1])

(***************************************************************************)
(* SCRAP backend (adapters/scrap_stub.py).  Byte strings are sequences of  *)
(* integers 0..255.  A SHA-256 digest is abstracted to a fixed-length      *)
(* string that is injective in what was hashed; the fresh value of         *)
(* secrets.token_hex(8) is the nonce argument.                             *)
(***************************************************************************)
IssueCapabilityToken(subject, nonce) == <<84, subject, nonce>>
MakeBoundTaskRequest(token, job) == <<81>> \o Tail(token) \o <<job>>
MakeReceipt(req) == <<82>> \o Tail(req)

\* payload[idx] ^ 0x01
FlipLowBit(b) == IF b % 2 = 0 THEN b + 1 ELSE b - 1
\* a tamper that overwrites the digest byte derived from the nonce
Tamper_ClearNonce(payload, idx) == [payload EXCEPT ![3] = 0]

\* tamper(payload, rng), idx being rng.randrange(len(payload)) (0-based)
Tamper(payload, idx) ==
    IF payload = <<>> THEN payload ELSE [payload EXCEPT ![idx + 1] = FlipLowBit(@)]

(***************************************************************************)
(* run_trial.  A trial is the record                                       *)
(*   [hyp, metrics, job_inject_t, job_expected, job_deadline, job_id,      *)
(*    done_jobs, missed_jobs, nonces, tampered_jobs]                       *)
(* the generator shared by run_trial, the transport and the simulator is   *)
(* hyp.rng.  done_jobs, missed_jobs and tampered_jobs list the job ids     *)
(* behind the completed, deadline_missed and tampered counters, nonces the *)
(* token nonces the backend drew.                                          *)
(***************************************************************************)
\* sorted(list)
RECURSIVE Insert(_, _)
Insert(s, x) == IF s = <<>> THEN <<x>>
                ELSE IF x <= Head(s) THEN <<x>> \o s ELSE <<Head(s)>> \o Insert(Tail(s), x)
RECURSIVE Sorted(_)
Sorted(s) == IF s = <<>> THEN <<>> ELSE Insert(Sorted(Tail(s)), Head(s))

NewMetrics ==
    [injected |-> 0, delivered |-> 0, dropped |-> 0, tampered |-> 0, verified_ok |-> 0,
     verified_bad |-> 0, ttfs_steps |-> <<>>, completed |-> 0, deadline_missed |-> 0]

\* HypatiaStub with its default topology parameters
TrialConfig(a) == StubConfig(a.n_sats, a.n_ground, 5, 12, 6, 7, 1)

NewTrial(a) ==
    [hyp |-> NewStub(RngSeed(a.seed), TrialConfig(a), a.outage_p, a.congestion_p, a.ttl_steps),
     metrics |-> NewMetrics,
     job_inject_t |-> [x \in {} |-> 0], job_expected |-> [x \in {} |-> 0],
     job_deadline |-> [x \in {} |-> 0], job_id |-> 0,
     done_jobs |-> <<>>, missed_jobs |-> <<>>, nonces |-> <<>>, tampered_jobs |-> <<>>]

FunDrop(f, ks) == [x \in DOMAIN f \ ks |-> f[x]]

NotTampered(receipt, rng) == [payload |-> receipt, tampered |-> FALSE, rng |-> rng]
Tampered(receipt, r) == [payload |-> Tamper(receipt, r.val), tampered |-> TRUE, rng |-> r.rng]
\* d is the generator after rng.random(), which is also the value drawn
AttackDraw(receipt, attack_p, d) ==
    IF d < attack_p THEN Tampered(receipt, RngBelow(d, Len(receipt))) ELSE NotTampered(receipt, d)
\* lines 172-175: attack_p > 0 and rng.random() < attack_p
Attack(receipt, attack_p, rng) ==
    IF attack_p > 0 THEN AttackDraw(receipt, attack_p, RngNext(rng)) ELSE NotTampered(receipt, rng)

\* HypatiaTransport.send: t_inject is stamped on a copy of the meta dict
Send(src, dst, payload, meta, now) ==
    HypatiaPacket(src, dst, payload,
                  IF "t_inject" \in DOMAIN meta THEN meta ELSE FunPut(meta, "t_inject", now))

JobMeta(receipt, job, ttl_steps) == [expected |-> receipt, job_id |-> job, ttl_steps |-> ttl_steps]

\* lines 172-186: the job's books and its packet
InjectPayload(tr, a, src, dst, receipt, atk) ==
    [tr EXCEPT
       !.metrics.tampered = @ + (IF atk.tampered THEN 1 ELSE 0),
       !.tampered_jobs = IF atk.tampered THEN Append(@, tr.job_id) ELSE @,
       !.metrics.injected = @ + 1,
       !.job_inject_t = FunPut(@, tr.job_id, tr.hyp.t),
       !.job_expected = FunPut(@, tr.job_id, receipt),
       !.job_deadline = FunPut(@, tr.job_id, tr.hyp.t + a.deadline_steps),
       !.hyp = InjectPacket([tr.hyp EXCEPT !.rng = atk.rng],
                            Send(src, dst, atk.payload, JobMeta(receipt, tr.job_id, a.ttl_steps),
                                 tr.hyp.t)),
       !.job_id = @ + 1]

InjectReceipt(tr, a, src, dst, receipt, rng) ==
    InjectPayload(tr, a, src, dst, receipt, Attack(receipt, a.attack_p, rng))

\* lines 160-170
InjectTo(tr, a, src, nonce, r2) ==
    InjectReceipt([tr EXCEPT !.nonces = Append(@, nonce)], a, src, Ground(r2.val),
                  MakeReceipt(MakeBoundTaskRequest(IssueCapabilityToken(src[2], nonce), tr.job_id)),
                  r2.rng)

\* lines 153-158: src = rng.choice(sat_nodes); dst = rng.choice(ground_nodes)
InjectFrom(tr, a, nonce, r1) == InjectTo(tr, a, Sat(r1.val), nonce, RngBelow(r1.rng, a.n_ground))
InjectJob(tr, a, nonce) == InjectFrom(tr, a, nonce, RngBelow(tr.hyp.rng, a.n_sats))

\* lines 151-188: nonces holds the fresh token nonce of each injected job
RECURSIVE InjectJobs(_, _, _)
InjectJobs(tr, a, nonces) ==
    IF nonces = <<>> THEN tr ELSE InjectJobs(InjectJob(tr, a, Head(nonces)), a, Tail(nonces))

\* on_rx with ok true: lines 136-143
Complete(tr, job, t_in, t_del) ==
    [tr EXCEPT
       !.metrics.verified_ok = @ + 1,
       !.metrics.completed = @ + 1,
       !.metrics.ttfs_steps = Append(@, t_del - t_in),
       !.job_inject_t = FunDrop(@, {job}),
       !.job_expected = FunDrop(@, {job}),
       !.job_deadline = FunDrop(@, {job}),
       !.done_jobs = Append(@, job)]

\* run_trial.on_rx
OnRx(tr, payload, meta) ==
    IF payload = meta.expected
    THEN Complete(tr, meta.job_id, meta.t_inject, meta.t_deliver)
    ELSE [tr EXCEPT !.metrics.verified_bad = @ + 1]

\* variant that counts a delivery twice, for sensitivity checks
OnDelivery_Twice(tr, pkt, now) ==
    OnRx([tr EXCEPT !.metrics.delivered = @ + 2], pkt.payload,
         IF "t_deliver" \in DOMAIN pkt.meta THEN pkt.meta ELSE FunPut(pkt.meta, "t_deliver", now))

\* HypatiaTransport._on_delivery (every ground node has on_rx registered)
OnDelivery(tr, pkt, now) ==
    OnRx([tr EXCEPT !.metrics.delivered = @ + 1], pkt.payload,
         IF "t_deliver" \in DOMAIN pkt.meta THEN pkt.meta ELSE FunPut(pkt.meta, "t_deliver", now))

\* HypatiaTransport._on_drop
OnDrop(tr) == [tr EXCEPT !.metrics.dropped = @ + 1]

Callback(tr, x) ==
    IF x.outcome = "deliver" THEN OnDelivery(tr, x.pkt, x.t)
    ELSE IF x.outcome = "keep" THEN tr
    ELSE OnDrop(tr)

\* the callbacks the simulator invoked during one step, in order
RECURSIVE Callbacks(_, _)
Callbacks(tr, trace) ==
    IF trace = <<>> THEN tr ELSE Callbacks(Callback(tr, Head(trace)), Tail(trace))

\* hypatia.step(1) with the transport's callbacks
Advanced(tr, stepped) == Callbacks([tr EXCEPT !.hyp = stepped.sim], stepped.trace)
Advance(tr) == Advanced(tr, StepSim(tr.hyp))

\* lines 194-199
MissAll(tr, expired) ==
    [tr EXCEPT
       !.metrics.deadline_missed = @ + Cardinality(expired),
       !.job_inject_t = FunDrop(@, expired),
       !.job_expected = FunDrop(@, expired),
       !.job_deadline = FunDrop(@, expired),
       !.missed_jobs = @ \o Sorted(SetToSeq(expired))]
DeadlineAccounting(tr) ==
    MissAll(tr, {jid \in DOMAIN tr.job_deadline : tr.hyp.t > tr.job_deadline[jid]})

\* one iteration of the main loop
TrialIteration(tr, a, nonces) == DeadlineAccounting(Advance(InjectJobs(tr, a, nonces)))

\* round(n/d, digits) as an integer count of 10^-digits, round-half-even
RoundRatio(n, d, scale) ==
    LET q == (n * scale) \div d
        r2 == 2 * ((n * scale) % d)
    IN  IF r2 < d THEN q ELSE IF r2 > d THEN q + 1 ELSE IF q % 2 = 0 THEN q ELSE q + 1

\* lines 201-233: the returned metrics dict (rates in thousandths, mean in
\* hundredths)
TrialResult(tr, a) ==
    LET m == tr.metrics
        n == Len(m.ttfs_steps)
    IN  [attack_p |-> a.attack_p, outage_p |-> a.outage_p, congestion_p |-> a.congestion_p,
         availability |-> IF m.injected > 0 THEN RoundRatio(m.delivered, m.injected, 1000) ELSE 0,
         verified |-> RoundRatio(m.verified_ok, Max(1, m.verified_ok + m.verified_bad), 1000),
         reachability |-> IF tr.job_id > 0 THEN RoundRatio(m.completed, tr.job_id, 1000) ELSE 0,
         ttfs_mean_steps |-> IF n > 0 THEN RoundRatio(SeqSum(m.ttfs_steps), n, 100) ELSE 0,
         ttfs_p90_steps |-> IF n > 0 THEN Sorted(m.ttfs_steps)[((9 * (n - 1)) \div 10) + 1] ELSE 0,
         injected |-> m.injected, delivered |-> m.delivered, dropped |-> m.dropped,
         tampered |-> m.tampered, verified_ok |-> m.verified_ok,
         verified_bad |-> m.verified_bad, completed |-> m.completed,
         deadline_missed |-> m.deadline_missed, total_jobs |-> tr.job_id]

(***************************************************************************)
(* Geometry.  get_node_positions places satellite i of n at angle          *)
(* 2*pi*i/n + omega*t on a ring; targets are drawn in [-1,1]^2.            *)
(* Coordinates are quantised to an integer grid 0..GridMax with the ring   *)
(* centred at (GridMid, GridMid) and eight ring directions.  The drift     *)
(* omega*t moves every satellite on by one ring direction each DriftSteps  *)
(* steps, so that a satellite's distance to a target changes from one      *)
(* step to another within a run.                                           *)
(***************************************************************************)
GridMax == 6
GridMid == 3

RingPoints == << <<6, 3>>, <<5, 5>>, <<3, 6>>, <<1, 5>>, <<0, 3>>, <<1, 1>>, <<3, 0>>, <<5, 1>> >>

\* steps per ring direction of drift
DriftSteps == 3

\* get_node_positions()["sat-i"]
SatPosition(i, n_sats, t) == RingPoints[((((i * 8) \div n_sats) + (t \div DriftSteps)) % 8) + 1]

\* _distance(a, b) <= radius
WithinRadius(a, b, radius) ==
    radius >= 0 /\
    (a[1] - b[1]) * (a[1] - b[1]) + (a[2] - b[2]) * (a[2] - b[2]) <= radius * radius

\* rng.uniform(-1.0, 1.0) quantised to a grid coordinate
UniformCoord(s) == [val |-> (RngNext(s) * (GridMax + 1)) \div RngMod, rng |-> RngNext(s)]

(***************************************************************************)
(* _task_stream: task k is created at step k, with a target drawn from     *)
(* random.Random(seed)                                                     *)
(***************************************************************************)
\* variant whose task ids wrap around after two tasks, for sensitivity checks
TaskOf_Recycled(seed, k, ttl_steps) ==
    MakeTask(k % 2, k, k + ttl_steps, <<UniformCoord(RngSeed(seed)).val, 0>>, "imaging")

TaskOf(seed, k, ttl_steps) ==
    LET s0 == RngSkip(RngSeed(seed), 2 * k)
        x == UniformCoord(s0)
        y == UniformCoord(x.rng)
    IN  MakeTask(k, k, k + ttl_steps, <<x.val, y.val>>, "imaging")

(***************************************************************************)
(* Event log records (_write_event).  hop and within are audit fields of   *)
(* token_validated records: the inputs of the verdict.                     *)
(***************************************************************************)
NoNode == <<"none", 0>>
Event(t, kind, task_id, sat, dst, ok, reason, receipt, hop, within) ==
    [t |-> t, event |-> kind, task_id |-> task_id, sat |-> sat, dst |-> dst,
     ok |-> ok, reason |-> reason, receipt |-> receipt, hop |-> hop, within |-> within]
Ev(t, kind, task_id) == Event(t, kind, task_id, NoNode, NoNode, FALSE, "", <<>>, 0, FALSE)
EvSat(t, kind, task_id, sat) == Event(t, kind, task_id, sat, NoNode, FALSE, "", <<>>, 0, FALSE)

(***************************************************************************)
(* run_mode state                                                          *)
(***************************************************************************)
VARIABLES
    args,        \* keyword arguments of run_mode
    step,        \* loop variable; equals hypatia._t at the top of an iteration
    pending,     \* dict task_id -> Task, as the sequence of its keys in insertion order
    dispatched,  \* dict task_id -> step
    in_flight,   \* dict task_id -> {sat -> hop}: sequence of [task_id, holders]
    accepted,    \* dict task_id -> step
    tokens,      \* dict task_id -> token bytes
    log,         \* the events written to output_path, in order
    pc,          \* "run" inside the loop, "done" after it
    hypatia,     \* a HypatiaStub driven directly through inject_packet and step
    calls,       \* packets injected so far; the queue before the latest
                 \* _process_queue pass and what the pass did with each packet
    trial_a,     \* run_trial: the locals of one execution
    trial_b,     \* run_trial: the locals of a second execution with the same arguments
    result,      \* the metrics dicts returned by the two executions
    tok          \* a token, one modification of its bytes, and validate's verdict

modeVars == <<step, pending, dispatched, in_flight, accepted, tokens, log>>
stubVars == <<hypatia, calls>>
trialVars == <<trial_a, trial_b, result>>
vars == <<args, pc, modeVars, stubVars, trialVars, tok>>

ModeConfig(a) == StubConfig(a.n_sats, a.n_ground, 1, 6, 4, 5, 1)

SeqRemove(s, x) == SelectSeq(s, LAMBDA y : y # x)

HolderSats(holders) == {holders[i].sat : i \in DOMAIN holders}
HopOf(holders, sat) == (CHOOSE i \in DOMAIN holders : holders[i].sat = sat)
HopAt(holders, sat) == holders[HopOf(holders, sat)].hop
\* variant in which the last forwarding of a pass overwrites the recorded
\* hop count, for sensitivity checks
SetDefaults_Overwrite(holders, fwds) ==
    [k \in DOMAIN holders |->
        IF \E i \in DOMAIN fwds : fwds[i].dst = holders[k].sat
        THEN [holders[k] EXCEPT !.hop = fwds[CHOOSE i \in DOMAIN fwds :
                                                /\ fwds[i].dst = holders[k].sat
                                                /\ \A j \in DOMAIN fwds :
                                                      fwds[j].dst = holders[k].sat => j <= i].hop]
        ELSE holders[k]]
    \o [k \in 1..Cardinality({fwds[i].dst : i \in DOMAIN fwds} \ {holders[i].sat : i \in DOMAIN holders}) |->
          LET new == {fwds[i].dst : i \in DOMAIN fwds} \ {holders[i].sat : i \in DOMAIN holders}
              firsts == {i \in DOMAIN fwds : fwds[i].dst \in new
                                              /\ \A j \in 1..(i - 1) : fwds[j].dst # fwds[i].dst}
              ordered == SelectSeq([i \in DOMAIN fwds |-> i], LAMBDA i : i \in firsts)
          IN  [sat |-> fwds[ordered[k]].dst, hop |-> fwds[ordered[k]].hop]]

\* dict.setdefault(dst, hop) for every forwarding of fwds in order: a
\* satellite that is not a holder yet is added once, with the hop count of
\* the first forwarding that reaches it
FirstReached(holders, fwds) ==
    SelectSeq([i \in DOMAIN fwds |-> i],
              LAMBDA i : /\ fwds[i].dst \notin HolderSats(holders)
                         /\ \A j \in 1..(i - 1) : fwds[j].dst # fwds[i].dst)
NewHolders(fwds, first) ==
    [k \in DOMAIN first |-> [sat |-> fwds[first[k]].dst, hop |-> fwds[first[k]].hop]]
SetDefaults(holders, fwds) == holders \o NewHolders(fwds, FirstReached(holders, fwds))
\* dict[sat] = hop
HolderSet(holders, sat, hop) ==
    IF sat \in HolderSats(holders)
    THEN [holders EXCEPT ![HopOf(holders, sat)].hop = hop]
    ELSE Append(holders, [sat |-> sat, hop |-> hop])

FlightIds(fl) == {fl[i].task_id : i \in DOMAIN fl}
FlightIndex(fl, id) == CHOOSE i \in DOMAIN fl : fl[i].task_id = id
FlightHolders(fl, id) == fl[FlightIndex(fl, id)].holders
FlightRemove(fl, id) == SelectSeq(fl, LAMBDA e : e.task_id # id)

\* hop count recorded for the dispatch satellite
DispatchHop == 1

(***************************************************************************)
(* Phases of one loop iteration.  Each takes and returns the record        *)
(* [pending, dispatched, in_flight, accepted, tokens, log].                *)
(***************************************************************************)
\* lines 145-151
CreateTask(s, a, t) ==
    LET task == TaskOf(a.seed, t, a.ttl_steps)
        s1 == [s EXCEPT !.log = Append(@, Ev(t, "task_created", task.task_id)),
                        !.pending = Append(SeqRemove(@, task.task_id), task.task_id)]
    IN  IF a.mode = "isl"
        THEN [s1 EXCEPT !.tokens = FunPut(@, task.task_id, Issue(task, a.max_hops, a.radius)),
                        !.log = Append(@, Ev(t, "token_issued", task.task_id))]
        ELSE s1

GroundContacts(edges) == SelectSeq(edges, LAMBDA e : IsGround(e[1]) \/ IsGround(e[2]))
GroundAvailable(t, edges) == t % 6 = 0 /\ GroundContacts(edges) # <<>>
ContactSat(edges) ==
    LET edge == GroundContacts(edges)[1]
    IN  IF IsSat(edge[1]) THEN edge[1] ELSE edge[2]

\* lines 160-183
GroundDispatch(s, a, t, edges) ==
    IF ~(a.mode = "ground" /\ GroundAvailable(t, edges)) \/ s.pending = <<>> THEN s
    ELSE
    LET sat == ContactSat(edges)
        task_id == CHOOSE x \in Range(s.pending) : \A y \in Range(s.pending) : x <= y
        tsk == TaskOf(a.seed, task_id, a.ttl_steps)
        within == WithinRadius(tsk.target, SatPosition(sat[2], a.n_sats, t), a.radius)
        s1 == [s EXCEPT !.dispatched = IF task_id \in DOMAIN @ THEN @ ELSE FunPut(@, task_id, t),
                        !.log = @ \o <<EvSat(t, "task_dispatched", task_id, sat),
                                       EvSat(t, "task_received", task_id, sat)>>]
    IN  IF within
        THEN [s1 EXCEPT !.accepted = FunPut(@, task_id, t),
                        !.log = @ \o <<EvSat(t, "task_accepted", task_id, sat),
                                       EvSat(t, "task_completed", task_id, sat),
                                       Event(t, "receipt_emitted", task_id, NoNode, NoNode, FALSE, "",
                                             Receipt(tsk, sat, t), 0, FALSE)>>,
                        !.pending = SeqRemove(@, task_id)]
        ELSE s1

\* lines 187-194
RECURSIVE IslDispatchLoop(_, _, _, _)
IslDispatchLoop(s, ids, sat, t) ==
    IF ids = <<>> THEN s
    ELSE LET task_id == Head(ids)
             s1 == IF task_id \in DOMAIN s.dispatched THEN s
                   ELSE [s EXCEPT
                          !.dispatched = FunPut(@, task_id, t),
                          !.in_flight =
                              IF task_id \in FlightIds(@)
                              THEN [@ EXCEPT ![FlightIndex(@, task_id)].holders =
                                                HolderSet(@, sat, DispatchHop)]
                              ELSE Append(@, [task_id |-> task_id,
                                              holders |-> <<[sat |-> sat, hop |-> DispatchHop]>>]),
                          !.log = Append(@, EvSat(t, "task_dispatched", task_id, sat))]
         IN  IslDispatchLoop(s1, Tail(ids), sat, t)

IslDispatch(s, a, t, edges) ==
    IF GroundAvailable(t, edges)
    THEN IslDispatchLoop(s, s.pending, ContactSat(edges), t)
    ELSE s

\* lines 200-221 for one edge: the forwardings it causes, a to b first; hops
\* are read from the holders as they were before the pass
EdgeForwards(holders, edge, max_hops) ==
    IF IsGround(edge[1]) \/ IsGround(edge[2]) THEN <<>>
    ELSE (IF edge[1] \in HolderSats(holders) /\ HopAt(holders, edge[1]) < max_hops
          THEN <<[src |-> edge[1], dst |-> edge[2], hop |-> HopAt(holders, edge[1]) + 1]>>
          ELSE <<>>) \o
         (IF edge[2] \in HolderSats(holders) /\ HopAt(holders, edge[2]) < max_hops
          THEN <<[src |-> edge[2], dst |-> edge[1], hop |-> HopAt(holders, edge[2]) + 1]>>
          ELSE <<>>)

Forwarded(holders, fwds, task_id, t) ==
    [nh |-> SetDefaults(holders, fwds),
     ev |-> [i \in DOMAIN fwds |-> Event(t, "task_forwarded", task_id, fwds[i].src, fwds[i].dst,
                                         FALSE, "", <<>>, 0, FALSE)]]

\* lines 198-221: one pass over the edge list for one task
PropagateEdges(holders, edges, max_hops, task_id, t) ==
    Forwarded(holders,
              Flatten([k \in DOMAIN edges |-> EdgeForwards(holders, edges[k], max_hops)]),
              task_id, t)

\* lines 197-222
RECURSIVE PropagateLoop(_, _, _, _, _)
PropagateLoop(s, i, a, t, edges) ==
    IF i > Len(s.in_flight) THEN s
    ELSE LET e == s.in_flight[i]
             r == PropagateEdges(e.holders, edges, a.max_hops, e.task_id, t)
         IN  PropagateLoop([s EXCEPT !.in_flight[i].holders = r.nh, !.log = @ \o r.ev],
                           i + 1, a, t, edges)

\* lines 236-237: the spatial check overrides the verdict of validate
OverrideOutside(v, within) == IF ~within THEN Verdict(FALSE, "outside_area") ELSE v

\* variant that gives the task up on a failed verdict, for sensitivity checks
LogValidated_Forget(s, tsk, sat, hop_count, within, verdict, t) ==
    [s EXCEPT !.log = Append(@, Event(t, "token_validated", tsk.task_id, sat, NoNode,
                                      verdict.ok, verdict.reason, <<>>, hop_count, within)),
              !.in_flight = IF verdict.ok THEN @ ELSE FlightRemove(@, tsk.task_id)]

\* lines 238-246
LogValidated(s, tsk, sat, hop_count, within, verdict, t) ==
    [s EXCEPT !.log = Append(@, Event(t, "token_validated", tsk.task_id, sat, NoNode,
                                      verdict.ok, verdict.reason, <<>>, hop_count, within))]

\* CompleteTask that leaves the task in pending and in_flight
CompleteTask_NoRemove(s, tsk, sat, t) ==
    [s EXCEPT !.accepted = FunPut(@, tsk.task_id, t),
              !.log = @ \o <<EvSat(t, "task_received", tsk.task_id, sat),
                             EvSat(t, "task_accepted", tsk.task_id, sat),
                             EvSat(t, "task_completed", tsk.task_id, sat),
                             Event(t, "receipt_emitted", tsk.task_id, NoNode, NoNode, FALSE, "",
                                   Receipt(tsk, sat, t), 0, FALSE)>>]

\* lines 248-260
CompleteTask(s, tsk, sat, t) ==
    [s EXCEPT !.accepted = FunPut(@, tsk.task_id, t),
              !.log = @ \o <<EvSat(t, "task_received", tsk.task_id, sat),
                             EvSat(t, "task_accepted", tsk.task_id, sat),
                             EvSat(t, "task_completed", tsk.task_id, sat),
                             Event(t, "receipt_emitted", tsk.task_id, NoNode, NoNode, FALSE, "",
                                   Receipt(tsk, sat, t), 0, FALSE)>>,
              !.pending = SeqRemove(@, tsk.task_id),
              !.in_flight = FlightRemove(@, tsk.task_id)]

\* lines 230-261: the holders of one task, in dict order, until the first ok
RECURSIVE ValidateHolders(_, _, _, _, _)
ApplyVerdict(s, holders, tsk, a, t, within, verdict) ==
    IF verdict.ok
    THEN CompleteTask(LogValidated(s, tsk, Head(holders).sat, Head(holders).hop, within, verdict, t),
                      tsk, Head(holders).sat, t)
    ELSE ValidateHolders(LogValidated(s, tsk, Head(holders).sat, Head(holders).hop, within, verdict, t),
                         Tail(holders), tsk, a, t)

HolderWithin(holder, tsk, a, t) ==
    WithinRadius(tsk.target, SatPosition(holder.sat[2], a.n_sats, t), a.radius)

ValidateHolders(s, holders, tsk, a, t) ==
    IF holders = <<>> THEN s
    ELSE ApplyVerdict(s, holders, tsk, a, t, HolderWithin(Head(holders), tsk, a, t),
                      OverrideOutside(Validate(s.tokens[tsk.task_id], tsk, Head(holders).hop, t),
                                      HolderWithin(Head(holders), tsk, a, t)))

\* lines 225-263: over a snapshot of in_flight
RECURSIVE ValidateLoop(_, _, _, _)
ValidateLoop(s, snapshot, a, t) ==
    IF snapshot = <<>> THEN s
    ELSE LET e == Head(snapshot)
             tsk == TaskOf(a.seed, e.task_id, a.ttl_steps)
         IN  IF e.task_id \notin DOMAIN s.tokens
             THEN ValidateLoop(s, Tail(snapshot), a, t)
             ELSE ValidateLoop(ValidateHolders(s, e.holders, tsk, a, t), Tail(snapshot), a, t)

\* lines 186-263
IslPhase(s, a, t, edges) ==
    IF a.mode # "isl" THEN s
    ELSE LET s1 == IslDispatch(s, a, t, edges)
             s2 == PropagateLoop(s1, 1, a, t, edges)
         IN  ValidateLoop(s2, s2.in_flight, a, t)

\* variant of the sweep that compares with >=, for sensitivity checks
RECURSIVE DeadlineSweep_AtDeadline(_, _, _, _)
DeadlineSweep_AtDeadline(s, ids, a, t) ==
    IF ids = <<>> THEN s
    ELSE LET t_id == Head(ids)
             tsk == TaskOf(a.seed, t_id, a.ttl_steps)
             s1 == IF t >= tsk.deadline_step
                   THEN [s EXCEPT !.log = Append(@, Ev(t, "deadline_miss", t_id)),
                                  !.pending = SeqRemove(@, t_id)]
                   ELSE s
         IN  DeadlineSweep_AtDeadline(s1, Tail(ids), a, t)

\* lines 266-269
RECURSIVE DeadlineSweep(_, _, _, _)
DeadlineSweep(s, ids, a, t) ==
    IF ids = <<>> THEN s
    ELSE LET t_id == Head(ids)
             tsk == TaskOf(a.seed, t_id, a.ttl_steps)
             s1 == IF t > tsk.deadline_step
                   THEN [s EXCEPT !.log = Append(@, Ev(t, "deadline_miss", t_id)),
                                  !.pending = SeqRemove(@, t_id)]
                   ELSE s
         IN  DeadlineSweep(s1, Tail(ids), a, t)

EmptyFun == [x \in {} |-> 0]

NoStub == [t |-> 0, queue |-> <<>>]
NoCalls == [injected |-> 0, queue |-> <<>>, trace |-> <<>>]
NoTrial == [job_id |-> 0]
NoTok == [bytes |-> <<>>]

ModeIdle ==
    /\ step = 0
    /\ pending = <<>>
    /\ dispatched = EmptyFun
    /\ in_flight = <<>>
    /\ accepted = EmptyFun
    /\ tokens = EmptyFun
    /\ log = <<>>
StubIdle == hypatia = NoStub /\ calls = NoCalls
TrialIdle == trial_a = NoTrial /\ trial_b = NoTrial /\ result = <<>>
TokIdle == tok = NoTok

ModeInit ==
    /\ args \in [mode : {"ground", "isl"}, seed : 0..MaxSeed, total_steps : {MaxSteps},
                 ttl_steps : 0..MaxTTL, n_sats : {ModeSats}, n_ground : {ModeGround},
                 max_hops : 0..MaxHops, radius : 0..MaxRadius]
    /\ pc = "run"
    /\ ModeIdle /\ StubIdle /\ TrialIdle /\ TokIdle

\* lines 144-271: one iteration of the main loop, phase by phase
RunModeStep ==
    /\ pc = "run"
    /\ step < args.total_steps
    /\ \E edges \in {ActiveEdges(ModeConfig(args), step)} :
       \E s1 \in {CreateTask([pending |-> pending, dispatched |-> dispatched,
                              in_flight |-> in_flight, accepted |-> accepted,
                              tokens |-> tokens, log |-> log], args, step)} :
       \E s2 \in {GroundDispatch(s1, args, step, edges)} :
       \E s3 \in {IslPhase(s2, args, step, edges)} :
       \E s4 \in {DeadlineSweep(s3, s3.pending, args, step)} :
           /\ pending' = s4.pending
           /\ dispatched' = s4.dispatched
           /\ in_flight' = s4.in_flight
           /\ accepted' = s4.accepted
           /\ tokens' = s4.tokens
           /\ log' = s4.log
    /\ step' = step + 1
    /\ UNCHANGED <<args, pc, stubVars, trialVars, tok>>

RunModeEnd ==
    /\ pc = "run"
    /\ step = args.total_steps
    /\ pc' = "done"
    /\ UNCHANGED <<args, modeVars, stubVars, trialVars, tok>>

Init == ModeInit
Next == RunModeStep \/ RunModeEnd
Spec == Init /\ [][Next]_vars

(***************************************************************************)
(* run_mode in ground mode with a ttl that spans two ground contacts       *)
(* (ground contacts are six steps apart)                                   *)
(***************************************************************************)
LongInit ==
    /\ args \in [mode : {"ground"}, seed : 0..MaxSeed, total_steps : {MaxSteps},
                 ttl_steps : {MaxSteps - 2}, n_sats : {ModeSats}, n_ground : {ModeGround},
                 max_hops : 0..MaxHops, radius : 0..MaxRadius]
    /\ pc = "run"
    /\ ModeIdle /\ StubIdle /\ TrialIdle /\ TokIdle

SpecLong == LongInit /\ [][Next]_vars

(***************************************************************************)
(* run_mode from its first statement: the HypatiaStub constructor runs     *)
(* before the task stream is built and before output_path is opened.       *)
(***************************************************************************)
\* min(sat.altitude_km for sat in self.satellites) raises ValueError on an
\* empty satellite list
MinAltitudeRaises(n_sats) == SeqSum(SyntheticCounts(n_sats)) = 0

StartInit ==
    /\ args \in [mode : {"ground", "isl"}, seed : {0}, total_steps : {MaxSteps},
                 ttl_steps : 0..MaxTTL, n_sats : {0, ModeSats}, n_ground : {0, ModeGround},
                 max_hops : 0..MaxHops, radius : 0..MaxRadius]
    /\ pc = "start"
    /\ ModeIdle /\ StubIdle /\ TrialIdle /\ TokIdle

\* lines 123-142: construction of the token provider, the stub, the task
\* stream and the empty dicts; nothing validates n_sats or n_ground
RunModeStart ==
    /\ pc = "start"
    /\ pc' = IF MinAltitudeRaises(args.n_sats) THEN "failed" ELSE "run"
    /\ UNCHANGED <<args, modeVars, stubVars, trialVars, tok>>

StartNext == RunModeStart \/ RunModeStep \/ RunModeEnd
SpecStart == StartInit /\ [][StartNext]_vars

(***************************************************************************)
(* HypatiaStub on its own: packets are injected and the simulator stepped  *)
(***************************************************************************)
StubInit ==
    /\ args \in [seed : {MaxSeed}, n_sats : {ModeSats}, n_ground : {ModeGround},
                 outage_p : {0, RngMod \div 2, RngMod}, congestion_p : {0, RngMod \div 2},
                 ttl_steps : {MaxTTL}]
    /\ pc = "stub"
    /\ hypatia = NewStub(RngSeed(args.seed), ModeConfig(args), args.outage_p, args.congestion_p,
                         args.ttl_steps)
    /\ calls = NoCalls
    /\ ModeIdle /\ TrialIdle /\ TokIdle

\* the meta dicts of injected packets: with and without a ttl_steps entry
PacketMetas == {[id |-> 0]} \cup {[id |-> 0, ttl_steps |-> k] : k \in 0..MaxTTL}

\* hypatia.inject_packet(HypatiaPacket(src, dst, payload, meta))
StubInject ==
    /\ pc = "stub"
    /\ calls.injected < MaxPackets
    /\ \E src \in {Sat(0), Sat(1)}, meta \in PacketMetas :
          hypatia' = InjectPacket(hypatia, HypatiaPacket(src, Ground(0), <<>>,
                                                         [meta EXCEPT !.id = calls.injected]))
    /\ calls' = [calls EXCEPT !.injected = @ + 1]
    /\ UNCHANGED <<args, pc, modeVars, trialVars, tok>>

\* hypatia.step(1)
StubStep ==
    /\ pc = "stub"
    /\ hypatia.t < MaxStubSteps
    /\ hypatia' = StepSim(hypatia).sim
    /\ calls' = [calls EXCEPT !.queue = hypatia.queue, !.trace = StepSim(hypatia).trace]
    /\ UNCHANGED <<args, pc, modeVars, trialVars, tok>>

StubNext == StubInject \/ StubStep
SpecStub == StubInit /\ [][StubNext]_vars

(***************************************************************************)
(* HypatiaStub with get_active_links among the calls.  calls.links is the   *)
(* list the latest call returned and calls.links_t the time it was made at *)
(* (-1 before the first call).                                             *)
(***************************************************************************)
\* variant that takes a draw from the generator, for sensitivity checks
GetActiveLinks_Draw(h) == [sim |-> [h EXCEPT !.rng = RngNext(@)], out |-> ActiveEdges(h.cfg, h.t)]

\* HypatiaStub.get_active_links: the simulator afterwards and the returned list
GetActiveLinks(h) == [sim |-> h, out |-> ActiveEdges(h.cfg, h.t)]

LinksInit ==
    /\ args \in [seed : {MaxSeed}, n_sats : {ModeSats}, n_ground : {ModeGround},
                 outage_p : {RngMod \div 2}, congestion_p : {0}, ttl_steps : {MaxTTL}]
    /\ pc = "stub"
    /\ hypatia = NewStub(RngSeed(args.seed), ModeConfig(args), args.outage_p, args.congestion_p,
                         args.ttl_steps)
    /\ calls = [injected |-> 0, queue |-> <<>>, trace |-> <<>>, links |-> <<>>, links_t |-> -1]
    /\ ModeIdle /\ TrialIdle /\ TokIdle

\* hypatia.get_active_links()
StubLinks ==
    /\ pc = "stub"
    /\ hypatia' = GetActiveLinks(hypatia).sim
    /\ calls' = [calls EXCEPT !.links = GetActiveLinks(hypatia).out, !.links_t = hypatia.t]
    /\ UNCHANGED <<args, pc, modeVars, trialVars, tok>>

LinksNext == StubInject \/ StubStep \/ StubLinks
SpecLinks == LinksInit /\ [][LinksNext]_vars

(***************************************************************************)
(* HypatiaStub with a delivery callback and a drop callback registered     *)
(* that keep books: calls.delivered lists the packets the delivery         *)
(* callback was invoked for and calls.dropped the packets and reasons the  *)
(* drop callback was invoked for, in order of invocation.                  *)
(***************************************************************************)
BooksInit ==
    /\ args \in [seed : {MaxSeed}, n_sats : {ModeSats}, n_ground : {ModeGround},
                 outage_p : {0, RngMod \div 2}, congestion_p : {0, RngMod \div 2},
                 ttl_steps : {MaxTTL}]
    /\ pc = "stub"
    /\ hypatia = NewStub(RngSeed(args.seed), ModeConfig(args), args.outage_p, args.congestion_p,
                         args.ttl_steps)
    /\ calls = [injected |-> 0, queue |-> <<>>, trace |-> <<>>, delivered |-> <<>>,
                dropped |-> <<>>]
    /\ ModeIdle /\ TrialIdle /\ TokIdle

\* cb(pkt) for a delivery, cb(pkt, reason) for a drop
Booked(books, x) ==
    IF x.outcome = "deliver" THEN [books EXCEPT !.delivered = Append(@, x.pkt.meta.id)]
    ELSE IF x.outcome = "keep" THEN books
    ELSE [books EXCEPT !.dropped = Append(@, [id |-> x.pkt.meta.id, reason |-> x.outcome])]

RECURSIVE BookAll(_, _)
BookAll(books, trace) ==
    IF trace = <<>> THEN books ELSE BookAll(Booked(books, Head(trace)), Tail(trace))

\* hypatia.step(1) with the callbacks registered
BooksStep ==
    /\ pc = "stub"
    /\ hypatia.t < MaxStubSteps
    /\ hypatia' = StepSim(hypatia).sim
    /\ calls' = BookAll([calls EXCEPT !.queue = hypatia.queue, !.trace = StepSim(hypatia).trace],
                        StepSim(hypatia).trace)
    /\ UNCHANGED <<args, pc, modeVars, trialVars, tok>>

BooksNext == StubInject \/ BooksStep
SpecBooks == BooksInit /\ [][BooksNext]_vars

(***************************************************************************)
(* HypatiaStub stepped for as long as its queue holds a packet: step() is  *)
(* called up to MaxStubSteps times and then until the queue is empty.      *)
(***************************************************************************)
\* the latest time a queue of MaxPackets packets can take to drain
DrainHorizon == MaxStubSteps + MaxPackets * (MaxTTL + 1)

DrainInit ==
    /\ args \in [seed : {MaxSeed}, n_sats : {ModeSats}, n_ground : {ModeGround},
                 outage_p : {RngMod \div 2}, congestion_p : {0}, ttl_steps : {MaxTTL}]
    /\ pc = "stub"
    /\ hypatia = NewStub(RngSeed(args.seed), ModeConfig(args), args.outage_p, args.congestion_p,
                         args.ttl_steps)
    /\ calls = [injected |-> 0, queue |-> <<>>, trace |-> <<>>, delivered |-> <<>>,
                dropped |-> <<>>]
    /\ ModeIdle /\ TrialIdle /\ TokIdle

\* the loop that calls step() has not finished
DrainEnabled ==
    /\ pc = "stub"
    /\ \/ hypatia.t < MaxStubSteps
       \/ hypatia.queue # <<>> /\ hypatia.t < DrainHorizon

\* hypatia.step(1) with the callbacks registered
DrainStep ==
    /\ DrainEnabled
    /\ hypatia' = StepSim(hypatia).sim
    /\ calls' = BookAll([calls EXCEPT !.queue = hypatia.queue, !.trace = StepSim(hypatia).trace],
                        StepSim(hypatia).trace)
    /\ UNCHANGED <<args, pc, modeVars, trialVars, tok>>

DrainNext == StubInject \/ DrainStep

\* step() keeps being called: weak fairness of DrainStep, WF_vars(DrainStep),
\* written out with DrainEnabled for ENABLED <<DrainStep>>_vars (a step
\* always advances hypatia.t)
DrainFair == []<>(~DrainEnabled) \/ []<><<DrainStep>>_vars
SpecDrain == DrainInit /\ [][DrainNext]_vars /\ DrainFair

(***************************************************************************)
(* run_trial, executed twice with the same keyword arguments               *)
(***************************************************************************)
TrialSeeds == {7, 11, 21}
TrialProbabilities == {0, RngMod \div 2}
Nonces == {0, 1}

TrialInit ==
    /\ args \in [steps : {TrialSteps}, inject_per_step : {InjectPerStep}, seed : TrialSeeds,
                 attack_p : TrialProbabilities, outage_p : TrialProbabilities,
                 congestion_p : TrialProbabilities, ttl_steps : 0..MaxTTL,
                 deadline_steps : 0..MaxDeadline, n_sats : {TrialSats}, n_ground : {1}]
    /\ pc = "run"
    /\ trial_a = NewTrial(args)
    /\ trial_b = NewTrial(args)
    /\ result = <<>>
    /\ ModeIdle /\ StubIdle /\ TokIdle

\* one iteration of the main loop, in both executions; the token nonces are
\* fresh in each
TrialStep ==
    /\ pc = "run"
    /\ trial_a.hyp.t < args.steps
    /\ \E na, nb \in [1..args.inject_per_step -> Nonces] :
          /\ trial_a' = TrialIteration(trial_a, args, na)
          /\ trial_b' = TrialIteration(trial_b, args, nb)
    /\ UNCHANGED <<args, pc, result, modeVars, stubVars, tok>>

\* lines 201-233
TrialEnd ==
    /\ pc = "run"
    /\ trial_a.hyp.t = args.steps
    /\ result' = <<TrialResult(trial_a, args), TrialResult(trial_b, args)>>
    /\ pc' = "done"
    /\ UNCHANGED <<args, trial_a, trial_b, modeVars, stubVars, tok>>

TrialNext == TrialStep \/ TrialEnd
SpecTrial == TrialInit /\ [][TrialNext]_vars

(***************************************************************************)
(* TokenProvider: a token is issued, one of its bytes is replaced, and the *)
(* result is validated                                                     *)
(***************************************************************************)
\* the bytes a position may be overwritten with
ModBytes == Ws \cup {QUOTE, "0", "1", "9", ",", ":", "{", "]", "a", "#", BadByte}

TokInit ==
    /\ args \in [seed : {MaxSeed}, ttl_steps : {MaxTTL}, max_hops : 0..MaxHops,
                 radius : 0..MaxRadius]
    /\ pc = "issue"
    /\ tok = NoTok
    /\ ModeIdle /\ StubIdle /\ TrialIdle

\* token = provider.issue(task, max_hops, radius) for the first task
TokIssue ==
    /\ pc = "issue"
    /\ tok' = [bytes |-> Issue(TaskOf(args.seed, 0, args.ttl_steps), args.max_hops, args.radius),
               index |-> 0, modified |-> <<>>, verdict |-> Verdict(FALSE, "")]
    /\ pc' = "issued"
    /\ UNCHANGED <<args, modeVars, stubVars, trialVars>>

\* provider.validate(modified, task, 0, task.created_step), modified being
\* the token with the byte at one index replaced by a different byte
TokValidate ==
    /\ pc = "issued"
    /\ \E i \in 1..Len(tok.bytes) : \E b \in ModBytes \ {tok.bytes[i]} :
          tok' = [tok EXCEPT !.index = i,
                             !.modified = [tok.bytes EXCEPT ![i] = b],
                             !.verdict = Validate([tok.bytes EXCEPT ![i] = b],
                                                  TaskOf(args.seed, 0, args.ttl_steps), 0, 0)]
    /\ pc' = "validated"
    /\ UNCHANGED <<args, modeVars, stubVars, trialVars>>

TokNext == TokIssue \/ TokValidate
SpecTok == TokInit /\ [][TokNext]_vars

(***************************************************************************)
(* TokenProvider: the token issued for the first task is validated, as     *)
(* issued, against any task of the run                                     *)
(***************************************************************************)
CrossInit ==
    /\ args \in [seed : 0..MaxSeed, ttl_steps : 0..MaxTTL, max_hops : 0..MaxHops,
                 radius : 0..MaxRadius]
    /\ pc = "issue"
    /\ tok = NoTok
    /\ ModeIdle /\ StubIdle /\ TrialIdle

\* provider.validate(token, tasks[k], hop_count, now_step) with the token of
\* tasks[0]
CrossValidate ==
    /\ pc = "issued"
    /\ \E k \in 0..(MaxSteps - 1) : \E h \in 0..MaxHops : \E now \in 0..MaxSteps :
          tok' = [bytes |-> tok.bytes, index |-> 0, modified |-> tok.bytes,
                  task |-> TaskOf(args.seed, k, args.ttl_steps),
                  hop_count |-> h, now_step |-> now,
                  verdict |-> Validate(tok.bytes, TaskOf(args.seed, k, args.ttl_steps), h, now)]
    /\ pc' = "cross"
    /\ UNCHANGED <<args, modeVars, stubVars, trialVars>>

CrossNext == TokIssue \/ CrossValidate
SpecCross == CrossInit /\ [][CrossNext]_vars

(***************************************************************************)
(* TokenProvider: validate is handed byte strings that are not tokens as   *)
(* issued: undecodable bytes, JSON that is not an object, and correctly    *)
(* signed objects that lack one field of the issued token                  *)
(***************************************************************************)
\* the payload of an issued token without its signature
PayloadOf(token_bytes) == DictDel(JsonLoads(token_bytes).val.v, <<"sig">>)

\* the byte strings handed to validate
Malformed(token_bytes) ==
    {<<BadByte>>, <<"1">>, <<"[", "]">>, <<"{", "}">>}
    \cup {Signed(DictDel(PayloadOf(token_bytes), k)) : k \in DOMAIN PayloadOf(token_bytes)}

\* provider.validate(bytes, task, hop_count, now_step) for the first task
TotalValidate ==
    /\ pc = "issued"
    /\ \E b \in Malformed(tok.bytes) : \E h \in 0..MaxHops : \E now \in 0..MaxTTL :
          tok' = [bytes |-> tok.bytes, index |-> 0, modified |-> b,
                  hop_count |-> h, now_step |-> now,
                  verdict |-> Validate(b, TaskOf(args.seed, 0, args.ttl_steps), h, now)]
    /\ pc' = "total"
    /\ UNCHANGED <<args, modeVars, stubVars, trialVars>>

TotalNext == TokIssue \/ TotalValidate
SpecTotal == CrossInit /\ [][TotalNext]_vars

(***************************************************************************)
(* _has_path on its own: called once with a source, a destination and an   *)
(* edge list over three nodes, self-loops and repeated edges included       *)
(***************************************************************************)
PathNodes == {Sat(0), Sat(1), Ground(0)}
EdgeLists == UNION {[1..n -> PathNodes \X PathNodes] : n \in 0..MaxEdges}

PathInit ==
    /\ args \in [src : PathNodes, dst : PathNodes, edges : EdgeLists]
    /\ pc = "path"
    /\ ModeIdle /\ StubIdle /\ TrialIdle /\ TokIdle

\* self._has_path(src, dst, edges)
PathCall ==
    /\ pc = "path"
    /\ result' = <<HasPath(args.src, args.dst, args.edges)>>
    /\ pc' = "pathed"
    /\ UNCHANGED <<args, modeVars, stubVars, trial_a, trial_b, tok>>

PathNext == PathCall
SpecPath == PathInit /\ [][PathNext]_vars

(***************************************************************************)
(* _active_edges over time: a HypatiaStub with an empty queue is built     *)
(* with link parameters drawn from small ranges, then get_active_links()   *)
(* and step(1) alternate.  calls.seen[t + 1] is the list returned at time  *)
(* t.  The run covers one span of                                          *)
(* ring_period * crosslink_period * n_sats steps and one step more.        *)
(***************************************************************************)
LinkSpan(cfg) == cfg.ring_period * cfg.crosslink_period * cfg.n_sats

EdgesInit ==
    /\ args \in [seed : {MaxSeed}, n_sats : 1..ModeSats, n_ground : 0..(ModeGround + 1),
                 crosslink_window : 0..MaxWindow, crosslink_period : 1..MaxPeriod,
                 ring_period : 1..MaxPeriod, constellation_crosslinks : {0, 1}]
    /\ pc = "look"
    /\ hypatia = NewStub(RngSeed(args.seed),
                         StubConfig(args.n_sats, args.n_ground, args.crosslink_window,
                                    args.crosslink_period, args.ring_period, 5,
                                    args.constellation_crosslinks),
                         0, 0, MaxTTL)
    /\ calls = [injected |-> 0, queue |-> <<>>, trace |-> <<>>, seen |-> <<>>]
    /\ ModeIdle /\ TrialIdle /\ TokIdle

\* hypatia.get_active_links()
EdgesLook ==
    /\ pc = "look"
    /\ hypatia' = GetActiveLinks(hypatia).sim
    /\ calls' = [calls EXCEPT !.seen = Append(@, GetActiveLinks(hypatia).out)]
    /\ pc' = "step"
    /\ UNCHANGED <<args, modeVars, trialVars, tok>>

\* hypatia.step(1)
EdgesStep ==
    /\ pc = "step"
    /\ hypatia.t <= LinkSpan(hypatia.cfg)
    /\ hypatia' = StepSim(hypatia).sim
    /\ pc' = "look"
    /\ UNCHANGED <<args, calls, modeVars, trialVars, tok>>

EdgesNext == EdgesLook \/ EdgesStep
SpecEdges == EdgesInit /\ [][EdgesNext]_vars

(***************************************************************************)
(* HypatiaScheduleSim (sim/hypatia_real.py): the links of step t are read  *)
(* from a schedule, the queue holds (t_inject, pkt) pairs and the ttl is   *)
(* read from the packet's meta when the packet is examined.                *)
(***************************************************************************)
\* HypatiaScheduleSim(steps, sat_nodes, ground_nodes, ttl_steps)
NewScheduleSim(steps, ttl_steps) ==
    [t |-> 0, queue |-> <<>>, steps |-> steps, ttl_steps |-> ttl_steps]

\* HypatiaScheduleSim.inject_packet
ScheduleInject(r, pkt) == [r EXCEPT !.queue = Append(@, <<r.t, pkt>>)]

\* HypatiaScheduleSim._edges_at_time: steps[min(t, len(steps) - 1)]
EdgesAtTime(r, t) == r.steps[Min(t, Len(r.steps) - 1) + 1]

\* one callback invocation: cb(pkt) or cb(pkt, reason), at time t
Delivery(pkt, t) == [cb |-> "delivery", pkt |-> pkt, reason |-> "", t |-> t]
Drop(pkt, reason, t) == [cb |-> "drop", pkt |-> pkt, reason |-> reason, t |-> t]

\* lines 194-203: one queued pair examined against the edges of the step
ScheduleExamine(acc, qd, r, edges) ==
    IF (r.t - qd[1]) > MetaGet(qd[2].meta, "ttl_steps", r.ttl_steps)
    THEN [acc EXCEPT !.cbs = Append(@, Drop(qd[2], "ttl", r.t))]
    ELSE IF ~HasPath(qd[2].src, qd[2].dst, edges)
    THEN [acc EXCEPT !.keep = Append(@, qd)]
    ELSE [acc EXCEPT !.cbs = Append(@, Delivery(qd[2], r.t))]

RECURSIVE ScheduleLoop(_, _, _, _)
ScheduleLoop(queue, acc, r, edges) ==
    IF queue = <<>> THEN acc
    ELSE ScheduleLoop(Tail(queue), ScheduleExamine(acc, Head(queue), r, edges), r, edges)

\* HypatiaScheduleSim._process_queue: the simulator afterwards and the
\* callbacks invoked, in order
ScheduleProcess(r) ==
    IF r.queue = <<>> THEN [sim |-> r, cbs |-> <<>>]
    ELSE LET acc == ScheduleLoop(r.queue, [keep |-> <<>>, cbs |-> <<>>], r, EdgesAtTime(r, r.t))
         IN  [sim |-> [r EXCEPT !.queue = acc.keep], cbs |-> acc.cbs]

\* HypatiaScheduleSim.step(1)
ScheduleStep(r) == ScheduleProcess([r EXCEPT !.t = @ + 1])

\* the callbacks a pass of HypatiaStub invokes, from its examinations
StubCallbacks(trace) ==
    LET called == SelectSeq(trace, LAMBDA x : x.outcome # "keep")
    IN  [i \in DOMAIN called |->
            IF called[i].outcome = "deliver" THEN Delivery(called[i].pkt, called[i].t)
            ELSE Drop(called[i].pkt, called[i].outcome, called[i].t)]

(***************************************************************************)
(* HypatiaStub and HypatiaScheduleSim side by side: no outages, no         *)
(* congestion, the schedule holds the stub's edges of every step, and each *)
(* packet is injected into both.  calls.sched is the schedule simulator,   *)
(* calls.stub_cbs and calls.sched_cbs the callbacks invoked so far.        *)
(***************************************************************************)
PairInit ==
    /\ args \in [seed : {MaxSeed}, n_sats : {ModeSats}, n_ground : {ModeGround},
                 outage_p : {0}, congestion_p : {0}, ttl_steps : {0, MaxTTL}]
    /\ pc = "pair"
    /\ hypatia = NewStub(RngSeed(args.seed), ModeConfig(args), args.outage_p, args.congestion_p,
                         args.ttl_steps)
    /\ calls = [injected |-> 0, queue |-> <<>>, trace |-> <<>>,
                sched |-> NewScheduleSim([k \in 1..(MaxStubSteps + 1) |->
                                              ActiveEdges(ModeConfig(args), k - 1)],
                                         args.ttl_steps),
                stub_cbs |-> <<>>, sched_cbs |-> <<>>]
    /\ ModeIdle /\ TrialIdle /\ TokIdle

\* inject_packet(pkt) on both simulators
PairInject ==
    /\ pc = "pair"
    /\ calls.injected < MaxPackets
    /\ \E src \in {Sat(0), Sat(1)}, meta \in PacketMetas :
         \E pkt \in {HypatiaPacket(src, Ground(0), <<>>, [meta EXCEPT !.id = calls.injected])} :
          /\ hypatia' = InjectPacket(hypatia, pkt)
          /\ calls' = [calls EXCEPT !.injected = @ + 1, !.sched = ScheduleInject(@, pkt)]
    /\ UNCHANGED <<args, pc, modeVars, trialVars, tok>>

\* step(1) on both simulators
PairStep ==
    /\ pc = "pair"
    /\ hypatia.t < MaxStubSteps
    /\ hypatia' = StepSim(hypatia).sim
    /\ calls' = [calls EXCEPT !.queue = hypatia.queue, !.trace = StepSim(hypatia).trace,
                              !.stub_cbs = @ \o StubCallbacks(StepSim(hypatia).trace),
                              !.sched = ScheduleStep(@).sim,
                              !.sched_cbs = @ \o ScheduleStep(calls.sched).cbs]
    /\ UNCHANGED <<args, pc, modeVars, trialVars, tok>>

PairNext == PairInject \/ PairStep
SpecPair == PairInit /\ [][PairNext]_vars

(***************************************************************************)
(* run_trial called twice with one HypatiaScheduleSim passed as            *)
(* hypatia_sim, as the sweep of main does.  hypatia is the shared          *)
(* simulator; trial_a and trial_b are the state of the first and the       *)
(* second call (metrics, job books, transport), the transport of the first *)
(* staying registered with the simulator after the call has returned.  A   *)
(* call's hyp field holds what run_trial itself reads and draws from: the  *)
(* simulator's clock, its own generator random.Random(seed), and the       *)
(* packets handed to transport.send in the current iteration.              *)
(* calls.started[k] is the simulator's time when call k began, and         *)
(* calls.stale lists the callbacks that the first call's transport         *)
(* received for packets of the second call.                                *)
(***************************************************************************)
SweepLinks == {<<>>, << <<Sat(0), Ground(0)>>, <<Sat(1), Sat(0)>> >>}

\* lines 87-107 with hypatia_sim given: Metrics(), random.Random(seed) and
\* HypatiaTransport(hypatia, ...) on the simulator as it is
SharedTrial(a, sim) ==
    [NewTrial(a) EXCEPT !.hyp = [t |-> sim.t, queue |-> <<>>, rng |-> RngSeed(a.seed),
                                 default_ttl_steps |-> sim.ttl_steps]]

\* transport.send for each packet of the iteration: hypatia.inject_packet
RECURSIVE ScheduleInjectAll(_, _)
ScheduleInjectAll(r, sent) ==
    IF sent = <<>> THEN r ELSE ScheduleInjectAll(ScheduleInject(r, Head(sent).pkt), Tail(sent))

\* the callbacks of one step as the transport of one call receives them
Received(cbs) ==
    [i \in DOMAIN cbs |->
        [outcome |-> IF cbs[i].cb = "delivery" THEN "deliver" ELSE cbs[i].reason,
         pkt |-> cbs[i].pkt, t |-> cbs[i].t]]

\* the call's view after hypatia.step(1): the clock read again, the
\* callbacks received, the deadlines swept
AfterStep(tr, stepped) ==
    DeadlineAccounting(Callbacks([tr EXCEPT !.hyp.t = stepped.sim.t, !.hyp.queue = <<>>],
                                 Received(stepped.cbs)))

\* a transport of a call that has returned: its callbacks still run
StaleStep(tr, stepped) == Callbacks(tr, Received(stepped.cbs))

\* the callbacks of a step that are about packets injected at or after time t0
Since(cbs, t0) == SelectSeq(cbs, LAMBDA c : c.pkt.meta.t_inject >= t0)

SweepInit ==
    /\ args \in [steps : {TrialSteps}, inject_per_step : {InjectPerStep}, seed : TrialSeeds,
                 attack_p : TrialProbabilities, outage_p : {0}, congestion_p : {0},
                 ttl_steps : 0..MaxTTL, deadline_steps : 0..MaxDeadline,
                 n_sats : {2}, n_ground : {1},
                 schedule : [1..(2 * TrialSteps + 1) -> SweepLinks]]
    /\ pc = "call"
    /\ hypatia = NewScheduleSim(args.schedule, 30)
    /\ calls = [injected |-> 0, queue |-> <<>>, trace |-> <<>>, started |-> <<>>, stale |-> <<>>]
    /\ ModeIdle /\ TrialIdle /\ TokIdle

\* run_trial(..., hypatia_sim=hypatia_sim) up to the main loop
SweepCall ==
    /\ pc = "call"
    /\ Len(calls.started) < 2
    /\ IF calls.started = <<>>
       THEN trial_a' = SharedTrial(args, hypatia) /\ UNCHANGED trial_b
       ELSE trial_b' = SharedTrial(args, hypatia) /\ UNCHANGED trial_a
    /\ calls' = [calls EXCEPT !.started = Append(@, hypatia.t)]
    /\ pc' = "run"
    /\ UNCHANGED <<args, hypatia, result, modeVars, tok>>

\* one iteration of the main loop of the first call
SweepStepFirst ==
    /\ pc = "run"
    /\ Len(calls.started) = 1
    /\ hypatia.t - calls.started[1] < args.steps
    /\ \E nonces \in [1..args.inject_per_step -> Nonces] :
         \E sent \in {InjectJobs(trial_a, args, nonces)} :
         \E stepped \in {ScheduleStep(ScheduleInjectAll(hypatia, sent.hyp.queue))} :
            /\ hypatia' = stepped.sim
            /\ trial_a' = AfterStep(sent, stepped)
    /\ UNCHANGED <<args, pc, calls, trial_b, result, modeVars, tok>>

\* one iteration of the main loop of the second call
SweepStepSecond ==
    /\ pc = "run"
    /\ Len(calls.started) = 2
    /\ hypatia.t - calls.started[2] < args.steps
    /\ \E nonces \in [1..args.inject_per_step -> Nonces] :
         \E sent \in {InjectJobs(trial_b, args, nonces)} :
         \E stepped \in {ScheduleStep(ScheduleInjectAll(hypatia, sent.hyp.queue))} :
            /\ hypatia' = stepped.sim
            /\ trial_a' = StaleStep(trial_a, stepped)
            /\ trial_b' = AfterStep(sent, stepped)
            /\ calls' = [calls EXCEPT !.stale = @ \o Since(stepped.cbs, calls.started[2])]
    /\ UNCHANGED <<args, pc, result, modeVars, tok>>

\* lines 201-233: the call returns its metrics dict
SweepReturn ==
    /\ pc = "run"
    /\ hypatia.t - calls.started[Len(calls.started)] = args.steps
    /\ result' = Append(result, TrialResult(IF Len(calls.started) = 1 THEN trial_a ELSE trial_b,
                                            args))
    /\ pc' = IF Len(calls.started) = 1 THEN "call" ELSE "done"
    /\ UNCHANGED <<args, hypatia, calls, trial_a, trial_b, modeVars, tok>>

SweepNext == SweepCall \/ SweepStepFirst \/ SweepStepSecond \/ SweepReturn
SpecSweep == SweepInit /\ [][SweepNext]_vars

(***************************************************************************)
(* Properties of run_mode                                                  *)
(***************************************************************************)
LogIdx == DOMAIN log
IsEv(i, kind) == log[i].event = kind
TaskIds == {log[i].task_id : i \in LogIdx}
CountEv(kind, id) == Cardinality({i \in LogIdx : log[i].event = kind /\ log[i].task_id = id})

\* C1: no task has both a deadline_miss event and a receipt_emitted event in
\* the log, in either mode and after any number of steps.
C1_TerminalExclusive ==
    \A i \in LogIdx : \A j \in LogIdx :
        ~(IsEv(i, "deadline_miss") /\ IsEv(j, "receipt_emitted")
          /\ log[i].task_id = log[j].task_id)

\* C1 witness: a task missed its deadline and one of its holders was
\* validated in range at a later step, while another task has a receipt.
C1_Witness ==
    /\ \E i \in LogIdx : \E j \in LogIdx :
          /\ i < j
          /\ IsEv(i, "deadline_miss")
          /\ IsEv(j, "token_validated")
          /\ log[j].task_id = log[i].task_id
          /\ log[j].within
    /\ \E k \in LogIdx : IsEv(k, "receipt_emitted")

\* C7: per task at most one task_completed and at most one receipt_emitted,
\* and every receipt_emitted directly follows a task_completed of the same
\* task written in the same step.
C7_SingleCompletion ==
    /\ \A id \in TaskIds : CountEv("task_completed", id) <= 1 /\ CountEv("receipt_emitted", id) <= 1
    /\ \A j \in LogIdx :
          IsEv(j, "receipt_emitted") =>
             /\ j > 1
             /\ IsEv(j - 1, "task_completed")
             /\ log[j - 1].task_id = log[j].task_id
             /\ log[j - 1].t = log[j].t

\* C7 witness: a task completed and the run went through a later ground
\* contact and later validation rounds.
C7_Witness ==
    /\ \E j \in LogIdx : IsEv(j, "receipt_emitted") /\ log[j].t = 0
    /\ \E j \in LogIdx : IsEv(j, "receipt_emitted") /\ log[j].t >= 6
    /\ step >= 7

\* C3: every hop count stored in in_flight is at most max_hops.
C3_HopBound ==
    \A i \in DOMAIN in_flight : \A h \in DOMAIN in_flight[i].holders :
        in_flight[i].holders[h].hop <= args.max_hops

\* the verdict the ordered checks give for a token_validated record of an
\* untampered token: expired, hop_limit, then outside_area, else ok
OrderedReason(e) ==
    IF ~(e.task_id <= e.t /\ e.t <= e.task_id + args.ttl_steps) THEN "expired"
    ELSE IF e.hop > args.max_hops THEN "hop_limit"
    ELSE IF ~e.within THEN "outside_area"
    ELSE "ok"

\* C8: the reason recorded in every token_validated event is the first
\* failing check in the order decode_failed, bad_signature, expired,
\* hop_limit, service_not_allowed, missing_target, outside_area (ok if none
\* fails).
C8_VerdictOrder ==
    \A i \in LogIdx :
        IsEv(i, "token_validated") =>
            /\ log[i].reason = OrderedReason(log[i])
            /\ log[i].ok = (log[i].reason = "ok")

\* C10: once deadline_miss is written for a task, the task is in no tracking
\* structure and no task_forwarded or token_validated event is written for
\* it at a later step.
C10_MissTearsDown ==
    \A i \in LogIdx :
        IsEv(i, "deadline_miss") =>
            /\ log[i].task_id \notin FlightIds(in_flight)
            /\ \A j \in LogIdx :
                  (log[j].task_id = log[i].task_id /\ log[j].t > log[i].t)
                     => ~(IsEv(j, "task_forwarded") \/ IsEv(j, "token_validated"))

\* the events of log[i..j], as kinds
KindsAt(i, n) == [k \in 1..n |-> IF i + k - 1 \in LogIdx THEN log[i + k - 1].event ELSE "none"]

\* C11: in ISL mode a token_validated event with ok = true is directly
\* followed by task_received, task_accepted, task_completed and
\* receipt_emitted of the same task in the same step; the task is then in
\* neither pending nor in_flight, and no later task_forwarded,
\* token_validated or task_dispatched event of that task is in the log.
C11_FirstOkTearsDown ==
    \A i \in LogIdx :
        (IsEv(i, "token_validated") /\ log[i].ok) =>
            /\ KindsAt(i + 1, 4) = <<"task_received", "task_accepted", "task_completed",
                                     "receipt_emitted">>
            /\ \A k \in 1..4 : log[i + k].task_id = log[i].task_id /\ log[i + k].t = log[i].t
            /\ log[i].task_id \notin FlightIds(in_flight)
            /\ log[i].task_id \notin Range(pending)
            /\ \A j \in LogIdx :
                  (j > i /\ log[j].task_id = log[i].task_id)
                     => log[j].event \notin {"task_forwarded", "token_validated", "task_dispatched"}

\* C11 witness: a holder forwarded the task to another satellite and then
\* validated ok, the other satellite was not validated in that step, and
\* the run went on with later steps in which other tasks were forwarded.
C11_Witness ==
    \E i \in LogIdx : \E j \in LogIdx :
        /\ j < i
        /\ IsEv(i, "token_validated") /\ log[i].ok
        /\ IsEv(j, "task_forwarded") /\ log[j].task_id = log[i].task_id
        /\ log[j].sat = log[i].sat
        /\ \A k \in LogIdx :
              (IsEv(k, "token_validated") /\ log[k].task_id = log[i].task_id
               /\ log[k].t = log[i].t) => log[k].sat # log[j].dst
        /\ \E k \in LogIdx : IsEv(k, "task_forwarded") /\ log[k].t > log[i].t
        /\ step >= log[i].t + 2

\* C12: a task has at most one deadline_miss event; the event carries the
\* step deadline_step + 1 = task_id + ttl_steps + 1 and belongs to a task
\* without task_completed; and once the loop has run that step, every task
\* without task_completed has its deadline_miss.
C12_MissOnceAtDeadline ==
    \A id \in TaskIds :
        /\ CountEv("deadline_miss", id) <= 1
        /\ \A i \in LogIdx :
              (IsEv(i, "deadline_miss") /\ log[i].task_id = id) =>
                  /\ log[i].t = id + args.ttl_steps + 1
                  /\ CountEv("task_completed", id) = 0
        /\ (step > id + args.ttl_steps + 1 /\ CountEv("task_completed", id) = 0)
              => CountEv("deadline_miss", id) = 1

\* C12 witness: at the end of a run one task missed its deadline, one task
\* completed, and one task whose deadline_step + 1 is not below total_steps
\* has neither event.
C12_Witness ==
    /\ pc = "done"
    /\ \E id \in TaskIds : CountEv("deadline_miss", id) = 1
    /\ \E id \in TaskIds : CountEv("task_completed", id) = 1
    /\ \E id \in TaskIds :
          /\ id + args.ttl_steps + 1 >= args.total_steps
          /\ CountEv("deadline_miss", id) = 0 /\ CountEv("task_completed", id) = 0

\* the satellite named by the task_dispatched event of a task
DispatchSat(id) == log[CHOOSE i \in LogIdx : IsEv(i, "task_dispatched") /\ log[i].task_id = id].sat

\* C13: in an ISL run with max_hops = 0 the dispatch satellite holds the task
\* at hop count 0, a token_validated event with ok = true names the dispatch
\* satellite, and a token_validated event of any other satellite has reason
\* hop_limit.
C13_ZeroHopsStayLocal ==
    (args.mode = "isl" /\ args.max_hops = 0) =>
        /\ \A k \in DOMAIN in_flight :
              LET e == in_flight[k]
              IN  DispatchSat(e.task_id) \in HolderSats(e.holders)
                      => HopAt(e.holders, DispatchSat(e.task_id)) = 0
        /\ \A i \in LogIdx :
              IsEv(i, "token_validated") =>
                  IF log[i].sat = DispatchSat(log[i].task_id)
                  THEN TRUE
                  ELSE ~log[i].ok /\ log[i].reason = "hop_limit"

\* the target of task id is farther than radius from every satellite at
\* every step of [created_step, deadline_step]
FarThroughout(id) ==
    LET tsk == TaskOf(args.seed, id, args.ttl_steps)
    IN  \A t \in tsk.created_step..tsk.deadline_step : \A i \in 0..(args.n_sats - 1) :
            ~WithinRadius(tsk.target, SatPosition(i, args.n_sats, t), args.radius)

\* C14: a task that is far throughout its validity window is never
\* completed, and it has its deadline_miss once the loop has run step
\* deadline_step + 1.
C14_FarNeverCompleted ==
    \A id \in TaskIds :
        FarThroughout(id) =>
            /\ CountEv("task_completed", id) = 0
            /\ step > id + args.ttl_steps + 1 => CountEv("deadline_miss", id) = 1

\* C15: a run_mode call with n_sats = 0 or n_ground = 0 never gets past
\* construction: it creates no task and writes no event.
C15_ZeroNodesFailAtStartup ==
    (args.n_sats = 0 \/ args.n_ground = 0) =>
        /\ pc \in {"start", "failed"}
        /\ log = <<>>
        /\ pending = <<>>

\* C17: in ISL mode every task in the holder map has its dispatch satellite
\* (the satellite of its task_dispatched event) recorded with hop count 0.
C17_DispatchAtHopZero ==
    args.mode = "isl" =>
        \A k \in DOMAIN in_flight :
            /\ DispatchSat(in_flight[k].task_id) \in HolderSats(in_flight[k].holders)
            /\ HopAt(in_flight[k].holders, DispatchSat(in_flight[k].task_id)) = 0

\* C18: from one step to the next, a task that stays in the holder map
\* keeps every recorded holder, each with the hop count it had.
C18_HoldersStable ==
    [][\A k \in DOMAIN in_flight :
          in_flight[k].task_id \in FlightIds(in_flight') =>
              \A h \in DOMAIN in_flight[k].holders :
                  /\ in_flight[k].holders[h].sat
                        \in HolderSats(FlightHolders(in_flight', in_flight[k].task_id))
                  /\ HopAt(FlightHolders(in_flight', in_flight[k].task_id),
                           in_flight[k].holders[h].sat) = in_flight[k].holders[h].hop]_vars

\* C18 witness: a task still in the holder map was forwarded to a satellite
\* that already held it, from a holder whose hop count plus one differs
\* from the hop count recorded for that satellite.
C18_Witness ==
    \E k \in DOMAIN in_flight : \E i \in LogIdx : \E j \in LogIdx :
        /\ IsEv(i, "task_forwarded") /\ log[i].task_id = in_flight[k].task_id
        /\ IsEv(j, "task_forwarded") /\ log[j].task_id = in_flight[k].task_id
        /\ log[i].t < log[j].t
        /\ log[i].dst = log[j].dst
        /\ HopAt(in_flight[k].holders, log[j].sat) + 1 # HopAt(in_flight[k].holders, log[j].dst)

\* C19: a step adds to pending at most the task it creates, whose id is the
\* step number and was never created before; every other id that is in
\* pending after the step was in pending before it.  pending holds no id
\* twice, and every task has one task_created event, at step task_id.
C19_PendingEnteredOnce ==
    [][/\ \A id \in Range(pending') \ Range(pending) : id = step /\ id \notin TaskIds
       /\ Cardinality(Range(pending')) = Len(pending')
       /\ \A i \in DOMAIN log' :
             log'[i].event = "task_created" =>
                 /\ log'[i].t = log'[i].task_id
                 /\ \A j \in DOMAIN log' :
                       (log'[j].event = "task_created" /\ log'[j].task_id = log'[i].task_id)
                          => j = i]_vars

\* C19 witness: late in a run a completed task and a task that missed its
\* deadline are both out of pending while younger tasks are pending.
C19_Witness ==
    /\ step >= 6
    /\ pending # <<>>
    /\ \E id \in TaskIds : CountEv("task_completed", id) = 1 /\ id + 3 <= step
    /\ \E id \in TaskIds : CountEv("deadline_miss", id) = 1 /\ id + 3 <= step
    /\ \A id \in TaskIds :
          (CountEv("task_completed", id) + CountEv("deadline_miss", id) > 0)
             => id \notin Range(pending)

\* the tracking state, as the record the phases of an iteration work on
Tracking ==
    [pending |-> pending, dispatched |-> dispatched, in_flight |-> in_flight,
     accepted |-> accepted, tokens |-> tokens, log |-> log]

\* r is s after the validation of one holder: when the verdict logged is
\* not ok, r is s with that token_validated event appended and nothing else
FailedKeeps(s, r, sat) ==
    /\ Len(r.log) > Len(s.log)
    /\ r.log[Len(s.log) + 1].event = "token_validated"
    /\ r.log[Len(s.log) + 1].sat = sat
    /\ ~r.log[Len(s.log) + 1].ok => r = [s EXCEPT !.log = Append(@, r.log[Len(s.log) + 1])]

\* C20: in ISL mode the validation of any holder of any task in the holder
\* map, run on the current state, leaves pending, dispatched, the holder
\* map, accepted and tokens as they are and appends one token_validated
\* event when its verdict is not ok; and a holder that failed validation at
\* some step has a token_validated event at every later step the loop has
\* run, up to the step in which the task completed.
C20_FailedValidationKeepsState ==
    /\ \A k \in DOMAIN in_flight : \A h \in DOMAIN in_flight[k].holders :
          FailedKeeps(Tracking,
                      ValidateHolders(Tracking, <<in_flight[k].holders[h]>>,
                                      TaskOf(args.seed, in_flight[k].task_id, args.ttl_steps),
                                      args, step),
                      in_flight[k].holders[h].sat)
    /\ \A i \in LogIdx :
          (IsEv(i, "token_validated") /\ ~log[i].ok) =>
              \A t2 \in (log[i].t + 1)..(step - 1) :
                  \/ \E j \in LogIdx : /\ IsEv(j, "token_validated")
                                        /\ log[j].task_id = log[i].task_id
                                        /\ log[j].sat = log[i].sat
                                        /\ log[j].t = t2
                  \/ \E j \in LogIdx : /\ IsEv(j, "task_completed")
                                        /\ log[j].task_id = log[i].task_id
                                        /\ log[j].t <= t2

\* C20 witness: a holder failed validation in the step just run and two
\* steps before it, for a task that is still pending and in the holder map.
C20_Witness ==
    \E k \in DOMAIN in_flight : \E i \in LogIdx : \E j \in LogIdx :
        /\ in_flight[k].task_id \in Range(pending)
        /\ IsEv(i, "token_validated") /\ ~log[i].ok /\ log[i].task_id = in_flight[k].task_id
        /\ IsEv(j, "token_validated") /\ ~log[j].ok /\ log[j].task_id = in_flight[k].task_id
        /\ log[j].sat = log[i].sat
        /\ log[j].t = log[i].t + 2
        /\ step = log[j].t + 1

\* C26: in either mode every task_completed and receipt_emitted event
\* carries a step that is at most the task's deadline_step
\* (task_id + ttl_steps).
C26_CompletedByDeadline ==
    \A i \in LogIdx :
        log[i].event \in {"task_completed", "receipt_emitted"}
            => log[i].t <= log[i].task_id + args.ttl_steps

(***************************************************************************)
(* run_trial: deadline accounting                                          *)
(***************************************************************************)
\* the buckets job j is in at the end of the run
Buckets(tr, j) ==
    (IF j \in Range(tr.done_jobs) THEN {"completed"} ELSE {})
    \cup (IF j \in Range(tr.missed_jobs) THEN {"deadline_missed"} ELSE {})
    \cup (IF j \in DOMAIN tr.job_deadline THEN {"pending"} ELSE {})

\* C2: at the end of run_trial, completed + deadline_missed <= total_jobs and
\* every job id is in exactly one of completed, deadline_missed and still
\* pending (tracked in job_deadline), whatever ttl_steps and deadline_steps are
C2_DeadlineAccounting ==
    pc = "done" =>
        /\ result[1].completed + result[1].deadline_missed <= result[1].total_jobs
        /\ \A j \in 0..(trial_a.job_id - 1) : Cardinality(Buckets(trial_a, j)) = 1

\* C16: every job that run_trial counted as completed was delivered at a
\* step t_deliver <= t_inject + deadline_steps, that is, its entry in
\* ttfs_steps (t_deliver - t_inject) is at most deadline_steps.
C16_CompletedByDeadline ==
    \A k \in DOMAIN trial_a.done_jobs :
        trial_a.metrics.ttfs_steps[k] <= args.deadline_steps

\* C21: in an iteration of run_trial the delivery-queue processing sees the
\* value of now that the iteration's job injection saw: a job completed in
\* the iteration has t_deliver (its ttfs_steps entry plus its inject step)
\* equal to hypatia.now at the top of the iteration, and the deadline sweep
\* of the iteration misses only jobs whose deadline is below that value.
C21_PhasesShareNow ==
    [][/\ \A k \in (Len(trial_a.done_jobs) + 1)..Len(trial_a'.done_jobs) :
             trial_a'.metrics.ttfs_steps[k]
               + (IF trial_a'.done_jobs[k] \in DOMAIN trial_a.job_inject_t
                  THEN trial_a.job_inject_t[trial_a'.done_jobs[k]]
                  ELSE trial_a.hyp.t)
               = trial_a.hyp.t
       /\ \A k \in (Len(trial_a.missed_jobs) + 1)..Len(trial_a'.missed_jobs) :
             (IF trial_a'.missed_jobs[k] \in DOMAIN trial_a.job_deadline
              THEN trial_a.job_deadline[trial_a'.missed_jobs[k]]
              ELSE trial_a.hyp.t + args.deadline_steps)
               < trial_a.hyp.t]_vars

\* C25: the metrics dict returned by run_trial has
\* 0 <= delivered <= injected, 0 <= verified_ok, 0 <= verified_bad and
\* 0 <= completed <= total_jobs, and availability, verified and
\* reachability (in thousandths) are between 0 and 1000.
C25_MetricsSane ==
    pc = "done" =>
        /\ 0 <= result[1].delivered /\ result[1].delivered <= result[1].injected
        /\ 0 <= result[1].verified_ok /\ 0 <= result[1].verified_bad
        /\ 0 <= result[1].completed /\ result[1].completed <= result[1].total_jobs
        /\ \A f \in {"availability", "verified", "reachability"} :
              0 <= result[1][f] /\ result[1][f] <= 1000

\* C25 witness: a finished run in which one packet was delivered with a
\* tampered payload and the other was not delivered, so that none of the
\* three rates is at its upper end.
C25_Witness ==
    /\ pc = "done"
    /\ result[1].injected = 2 /\ result[1].delivered = 1
    /\ result[1].verified_bad = 1
    /\ result[1].completed = 0

Examinations == {calls.trace[i] : i \in DOMAIN calls.trace}
Expiry(x) == x.t_inject + x.ttl_steps

\* C4 (as claimed): a packet injected at t0 with ttl_steps = k is dropped
\* with reason "ttl" at or before step t0 + k: after that step it is neither
\* examined again (still queued) nor delivered
C4_DroppedByExpiry == \A x \in Examinations : x.t <= Expiry(x)

\* C4 (amended): a packet with ttl_steps = k injected at t0 stays queued at
\* most through step t0 + k; it is delivered at step t0 + k at the latest,
\* and if it is still queued then, step t0 + k + 1 drops it with reason "ttl"
C4_DroppedAfterExpiry ==
    /\ \A x \in Examinations :
          /\ x.ttl_steps = MetaGet(x.pkt.meta, "ttl_steps", args.ttl_steps)
          /\ x.t <= Expiry(x) + 1
          /\ x.outcome = "ttl" <=> x.t = Expiry(x) + 1
          /\ x.outcome = "deliver" => x.t <= Expiry(x)
    /\ \A i \in DOMAIN hypatia.queue :
          hypatia.t <= hypatia.queue[i].t_inject + hypatia.queue[i].ttl_steps

\* a packet that outlived an unreachable step and is dropped for age while a
\* path exists
C4_Witness ==
    \E x \in Examinations :
       x.outcome = "ttl" /\ x.ttl_steps >= 1 /\ x.t = Expiry(x) + 1 /\ x.path

\* the undirected edge between a and b is in the edge list
Linked(a, b, edges) == <<a, b>> \in Range(edges) \/ <<b, a>> \in Range(edges)

\* (t + i) mod ring_period < floor(ring_duty * ring_period)
RingPhaseOn(cfg, t, i) ==
    (t + i) % cfg.ring_period < (cfg.duty_num * cfg.ring_period) \div 10

C24_LinksPure ==
    [][/\ (hypatia'.t = hypatia.t /\ hypatia' # hypatia)
             => ActiveEdges(hypatia'.cfg, hypatia'.t) = ActiveEdges(hypatia.cfg, hypatia.t)
       /\ (calls'.injected = calls.injected /\ hypatia'.t = hypatia.t) => hypatia' = hypatia
       /\ (calls'.links_t = calls.links_t /\ hypatia'.t = hypatia.t) => calls'.links = calls.links]_vars

\* C24 witness: get_active_links was called at a time at which a packet was
\* queued after a pass that consumed draws, and the list it returned differs
\* from the edge set of the time before.
C24_Witness ==
    /\ calls.links_t = hypatia.t
    /\ hypatia.t >= 1
    /\ hypatia.queue # <<>>
    /\ \E i \in DOMAIN calls.trace : calls.trace[i].draws > 0
    /\ calls.links # ActiveEdges(hypatia.cfg, hypatia.t - 1)

\* the packets of the latest pass that were kept, in the order of the queue
\* the pass started from
KeptOf(queue, trace) ==
    SelectSeq(queue, LAMBDA qd : \E i \in DOMAIN trace :
                                    trace[i].pkt = qd.pkt /\ trace[i].outcome = "keep")

\* C22: the queue holds packets in the order of their injection; a pass
\* examines the queue it started from front to back, one examination per
\* packet, so callbacks fire in enqueue order; and the packets it keeps are
\* at the front of the queue afterwards in their old relative order.
C22_EnqueueOrder ==
    /\ \A i \in DOMAIN hypatia.queue : \A j \in DOMAIN hypatia.queue :
          i < j => hypatia.queue[i].pkt.meta.id < hypatia.queue[j].pkt.meta.id
    /\ Len(calls.trace) = Len(calls.queue)
    /\ \A i \in DOMAIN calls.trace : calls.trace[i].pkt = calls.queue[i].pkt
    /\ Len(KeptOf(calls.queue, calls.trace)) <= Len(hypatia.queue)
    /\ SubSeq(hypatia.queue, 1, Len(KeptOf(calls.queue, calls.trace)))
          = KeptOf(calls.queue, calls.trace)

\* C22 witness: a pass over two packets fired a callback for each of them,
\* in injection order, after an earlier pass had kept the first.
C22_Witness ==
    /\ Len(calls.trace) = 2
    /\ calls.trace[1].outcome \notin {"keep"}
    /\ calls.trace[2].outcome \notin {"keep"}
    /\ calls.trace[1].t_inject < calls.trace[1].t - 1
    /\ calls.trace[1].pkt.meta.id < calls.trace[2].pkt.meta.id

\* the rule that applies to an examined packet
FirstRule(x) ==
    IF (x.t - x.t_inject) > x.ttl_steps THEN "ttl"
    ELSE IF ~HasPath(x.pkt.src, x.pkt.dst, ActiveEdges(hypatia.cfg, x.t)) THEN "keep"
    ELSE IF x.d1 < hypatia.outage_p THEN "outage"
    ELSE IF x.d2 < hypatia.congestion_p THEN "congestion"
    ELSE "deliver"

\* the draws a rule consumes
DrawsOf(outcome) == IF outcome \in {"ttl", "keep"} THEN 0 ELSE IF outcome = "outage" THEN 1 ELSE 2

\* the first draw open to the packet examined after x
FollowingDraw(x) == IF x.draws = 0 THEN x.d1 ELSE IF x.draws = 1 THEN x.d2 ELSE RngNext(x.d2)

\* C5: a pass of _process_queue examines every queued packet, in order, and
\* resolves it by the first matching rule of: over age -> drop "ttl"; no path
\* -> keep; draw < outage_p -> drop "outage"; next draw < congestion_p -> drop
\* "congestion"; otherwise deliver
C5_RuleOrder ==
    /\ Len(calls.trace) = Len(calls.queue)
    /\ \A i \in DOMAIN calls.trace :
          /\ calls.trace[i].pkt = calls.queue[i].pkt
          /\ calls.trace[i].outcome = FirstRule(calls.trace[i])
          /\ calls.trace[i].draws = DrawsOf(calls.trace[i].outcome)
          /\ calls.trace[i].d2 = RngNext(calls.trace[i].d1)
          /\ i > 1 => calls.trace[i].d1 = FollowingDraw(calls.trace[i - 1])

\* one pass in which an over-age packet with a path is dropped for "ttl" and
\* an unreachable packet is kept although every draw is below outage_p
C5_Witness ==
    /\ hypatia.outage_p = RngMod
    /\ \E x \in Examinations : x.over /\ x.path /\ x.outcome = "ttl"
    /\ \E x \in Examinations : ~x.over /\ ~x.path /\ x.outcome = "keep"

(***************************************************************************)
(* TokenProvider: tampering                                                *)
(***************************************************************************)
\* C9: whichever single byte of an issued token is replaced, validate
\* returns (False, "bad_signature")
C9_OneByteBadSignature == pc = "validated" => tok.verdict = Verdict(FALSE, "bad_signature")

\* the verdict reasons validate returns
Reasons ==
    {"ok", "decode_failed", "bad_signature", "expired", "hop_limit", "service_not_allowed",
     "missing_target"}

\* C35: validate is total: whatever byte string it is handed, it returns a
\* verdict whose reason is one of the enumerated reasons and never raises;
\* undecodable bytes give decode_failed.
C35_ValidateTotal ==
    pc = "total" =>
        /\ tok.verdict # Raised
        /\ tok.verdict.reason \in Reasons
        /\ tok.modified = <<BadByte>> => tok.verdict = Verdict(FALSE, "decode_failed")

\* C27: a token validates only against the task it was issued for: the
\* token of the first task is rejected against every task with another
\* task_id.
C27_BoundToTask ==
    pc = "cross" /\ tok.task.task_id # 0 => ~tok.verdict.ok

(***************************************************************************)
(* HypatiaStub: the books of the callbacks                                 *)
(***************************************************************************)
QueuedIds == {hypatia.queue[i].pkt.meta.id : i \in DOMAIN hypatia.queue}
DeliveredIds == {calls.delivered[i] : i \in DOMAIN calls.delivered}
DroppedIds == {calls.dropped[i].id : i \in DOMAIN calls.dropped}

\* C28: every injected packet is in exactly one of three conditions: queued,
\* delivered (one invocation of the delivery callback) or dropped (one
\* invocation of the drop callback, with one reason); so the number injected
\* is the number delivered plus the number dropped plus the queue length.
C28_ExactlyOneCondition ==
    /\ QueuedIds \cup DeliveredIds \cup DroppedIds = 0..(calls.injected - 1)
    /\ QueuedIds \cap DeliveredIds = {}
    /\ QueuedIds \cap DroppedIds = {}
    /\ DeliveredIds \cap DroppedIds = {}
    /\ Cardinality(QueuedIds) = Len(hypatia.queue)
    /\ Cardinality(DeliveredIds) = Len(calls.delivered)
    /\ Cardinality(DroppedIds) = Len(calls.dropped)
    /\ \A i \in DOMAIN calls.dropped : calls.dropped[i].reason \in {"ttl", "outage", "congestion"}
    /\ calls.injected = Len(calls.delivered) + Len(calls.dropped) + Len(hypatia.queue)

\* C28 witness: one packet was delivered and another dropped, the later of
\* the two callbacks in a pass that left alone the books of the earlier
C28_Witness ==
    /\ Len(calls.delivered) = 1
    /\ Len(calls.dropped) = 1
    /\ Len(calls.trace) = 1
    /\ calls.trace[1].outcome # "keep"
    /\ calls.trace[1].t_inject < calls.trace[1].t - 1

\* C29: while step() keeps being called, a packet injected at t0 with
\* ttl_steps = k is out of the queue once the step to time t0 + k + 1 has
\* run: no queued packet is older than its ttl and no pass keeps a packet at
\* that age; so a queue that holds packets becomes empty.
C29_LeavesByExpiry ==
    /\ [](/\ \A i \in DOMAIN hypatia.queue :
                hypatia.t - hypatia.queue[i].t_inject <= hypatia.queue[i].ttl_steps
          /\ \A x \in Examinations : x.t >= Expiry(x) + 1 => x.outcome # "keep")
    /\ (hypatia.queue # <<>>) ~> (hypatia.queue = <<>>)

\* C29 witness: after the last of the bounded steps the queue still held a
\* packet, and a further step emptied the queue by dropping it at age
\* ttl_steps + 1; every packet injected has left the queue
C29_Witness ==
    /\ hypatia.t > MaxStubSteps
    /\ hypatia.queue = <<>>
    /\ \E x \in Examinations : x.outcome = "ttl" /\ x.t = Expiry(x) + 1
    /\ Len(calls.delivered) + Len(calls.dropped) = MaxPackets

\* C30: a queued packet within its ttl that has no path at the current step
\* stays queued with its packet (payload included), inject step and ttl as
\* they were, neither callback is invoked for it, and the generator is where
\* it was: the draw offered to the packet is the draw offered to whatever
\* is examined next.
C30_NoPathNoChange ==
    \A i \in DOMAIN calls.trace :
        (~calls.trace[i].over /\ ~calls.trace[i].path) =>
            /\ calls.trace[i].outcome = "keep"
            /\ calls.trace[i].draws = 0
            /\ calls.queue[i] \in Range(hypatia.queue)
            /\ calls.trace[i].pkt.meta.id \notin DeliveredIds \cup DroppedIds
            /\ calls.trace[i].d1 = IF i < Len(calls.trace) THEN calls.trace[i + 1].d1
                                   ELSE RngNext(hypatia.rng)

\* C30 witness: a pass kept a packet that had no path and went on to a
\* packet that had one and took draws from the generator
C30_Witness ==
    /\ Len(calls.trace) = 2
    /\ ~calls.trace[1].over /\ ~calls.trace[1].path
    /\ calls.trace[2].path /\ calls.trace[2].draws > 0
    /\ Len(hypatia.queue) = 1

(***************************************************************************)
(* run_trial: time to first success                                        *)
(***************************************************************************)
\* after is before with one more job injected and nothing else done
OnlyEnqueued(before, after) ==
    /\ after.metrics = [before.metrics EXCEPT !.injected = @ + 1,
                                              !.tampered = after.metrics.tampered]
    /\ Len(after.hyp.queue) = Len(before.hyp.queue) + 1
    /\ SubSeq(after.hyp.queue, 1, Len(before.hyp.queue)) = before.hyp.queue
    /\ after.hyp.queue[Len(after.hyp.queue)].t_inject = before.hyp.t
    /\ after.hyp.t = before.hyp.t

\* C31: inject_packet only enqueues: the injection of a job leaves the
\* delivery, drop and verification counts alone and appends one entry
\* stamped with the current step; a packet is first examined one step after
\* its injection, so every TTFS on the books satisfies 1 <= TTFS <= ttl_steps.
C31_TtfsWithinTtl ==
    /\ \A i \in DOMAIN trial_a.metrics.ttfs_steps :
          /\ 1 <= trial_a.metrics.ttfs_steps[i]
          /\ trial_a.metrics.ttfs_steps[i] <= args.ttl_steps
    /\ \A i \in DOMAIN trial_a.hyp.queue : trial_a.hyp.queue[i].t_inject < trial_a.hyp.t
    /\ pc = "run" => \A nonce \in Nonces : OnlyEnqueued(trial_a, InjectJob(trial_a, args, nonce))

\* C31 witness: one job completed one step after its injection and another
\* at the last step its ttl allowed, after a step at which it stayed queued
C31_Witness ==
    /\ args.ttl_steps >= 2
    /\ \E i \in DOMAIN trial_a.metrics.ttfs_steps : trial_a.metrics.ttfs_steps[i] = 1
    /\ \E i \in DOMAIN trial_a.metrics.ttfs_steps :
          trial_a.metrics.ttfs_steps[i] = args.ttl_steps

\* C32: a job whose receipt was tampered before sending is never verified
\* nor completed: it is not among the completed jobs, its delivery is counted
\* in verified_bad (every delivery counts in exactly one of verified_ok and
\* verified_bad, and verified_ok counts the completed jobs only), and once
\* the clock is past its deadline it is among the missed jobs.
C32_TamperedNeverCompletes ==
    /\ \A k \in DOMAIN trial_a.tampered_jobs :
          /\ trial_a.tampered_jobs[k] \notin Range(trial_a.done_jobs)
          /\ IF trial_a.tampered_jobs[k] \in DOMAIN trial_a.job_deadline
             THEN trial_a.hyp.t <= trial_a.job_deadline[trial_a.tampered_jobs[k]]
             ELSE trial_a.tampered_jobs[k] \in Range(trial_a.missed_jobs)
    /\ trial_a.metrics.tampered = Len(trial_a.tampered_jobs)
    /\ trial_a.metrics.verified_ok = Len(trial_a.done_jobs)
    /\ trial_a.metrics.completed = Len(trial_a.done_jobs)
    /\ trial_a.metrics.delivered = trial_a.metrics.verified_ok + trial_a.metrics.verified_bad
    /\ trial_a.metrics.verified_bad <= trial_a.metrics.tampered

\* C32 witness: a tampered job was delivered and later counted as missed,
\* while an untampered job completed
C32_Witness ==
    /\ trial_a.metrics.verified_bad = 1
    /\ trial_a.metrics.completed = 1
    /\ \E k \in DOMAIN trial_a.tampered_jobs :
          trial_a.tampered_jobs[k] \in Range(trial_a.missed_jobs)

(***************************************************************************)
(* run_mode: forwarding and dispatch                                       *)
(***************************************************************************)
\* C33: a task_forwarded event is written only when its destination becomes
\* a new holder of the task, so a task has at most n_sats - 1 task_forwarded
\* events and no two of them name the same destination.
C33_ForwardOnlyNewHolder ==
    \A id \in TaskIds :
        /\ CountEv("task_forwarded", id) <= args.n_sats - 1
        /\ \A i \in LogIdx : \A j \in LogIdx :
              (IsEv(i, "task_forwarded") /\ IsEv(j, "task_forwarded") /\ i # j
               /\ log[i].task_id = id /\ log[j].task_id = id)
                  => log[i].dst # log[j].dst

\* C34: each task is dispatched at most once: the log holds at most one
\* task_dispatched event per task id.
C34_DispatchedOnce == \A id \in TaskIds : CountEv("task_dispatched", id) <= 1

(***************************************************************************)
(* _has_path                                                               *)
(***************************************************************************)
\* there is a walk from src to dst along edges of the list
Reachable(src, dst, edges) ==
    \E n \in 1..Cardinality(PathNodes) : \E walk \in [1..n -> PathNodes] :
        /\ walk[1] = src
        /\ walk[n] = dst
        /\ \A i \in 1..(n - 1) : Linked(walk[i], walk[i + 1], edges)

\* C36: _has_path returns true iff src = dst or dst is reachable from src in
\* the undirected graph of the edge list, whatever the orientation of the
\* edges, with self-loops and repeated edges in the list; every call returns.
C36_HasPathIsReachability ==
    pc = "pathed" => (result[1] <=> Reachable(args.src, args.dst, args.edges))

\* C36 witness: the call returned true for a destination two edges away,
\* across an edge listed from its far end, with a self-loop and no direct
\* edge in the list
C36_Witness ==
    /\ pc = "pathed"
    /\ result[1]
    /\ args.src # args.dst
    /\ ~Linked(args.src, args.dst, args.edges)
    /\ \E i \in DOMAIN args.edges : args.edges[i][1] = args.edges[i][2]
    /\ \E i \in DOMAIN args.edges :
          args.edges[i][2] = args.src /\ args.edges[i][1] \notin {args.src, args.dst}

(***************************************************************************)
(* Ground contact windows and the period of the links                      *)
(***************************************************************************)
\* the satellites with indices first, first + 1, ... (count of them), mod n
Consecutive(first, count, n) == {Sat((first + k) % n) : k \in 0..(count - 1)}

\* the edges of a list that touch node x
Touching(x, edges) == {e \in Range(edges) : e[1] = x \/ e[2] = x}

\* C37: at every step t each ground node g is linked to exactly the
\* crosslink_window consecutive satellites starting at index
\* (floor(t / crosslink_period) + g * max(1, N_sats div n_ground)) mod N_sats;
\* every edge touching a ground node has a satellite at its other end, and
\* ground nodes have no other edges.
C37_GroundWindows ==
    \A t \in 0..(Len(calls.seen) - 1) :
        LET edges == calls.seen[t + 1]
            n == hypatia.cfg.n_sats
            turn == t \div hypatia.cfg.crosslink_period
            spread == Max(1, n \div Max(1, hypatia.cfg.n_ground))
        IN  /\ \A g \in 0..(hypatia.cfg.n_ground - 1) :
                  /\ {e[1] : e \in Touching(Ground(g), edges)}
                        = Consecutive((turn + g * spread) % n, hypatia.cfg.crosslink_window, n)
                  /\ \A e \in Touching(Ground(g), edges) : e[2] = Ground(g)
            /\ \A e \in Range(edges) :
                  IsGround(e[1]) \/ IsGround(e[2])
                      => IsSat(e[1]) /\ e[2] \in {Ground(g) : g \in 0..(hypatia.cfg.n_ground - 1)}

\* C37 witness: two ground nodes, a window of two satellites out of four,
\* looked at after the window has turned, the second ground node's window
\* wrapping around the last satellite
C37_Witness ==
    /\ hypatia.cfg.n_ground = 2 /\ hypatia.cfg.n_sats = 4 /\ hypatia.cfg.crosslink_window = 2
    /\ Len(calls.seen) = hypatia.t + 1
    /\ hypatia.t \div hypatia.cfg.crosslink_period = 1
    /\ {e[1] : e \in Touching(Ground(0), calls.seen[hypatia.t + 1])} = {Sat(1), Sat(2)}
    /\ {e[1] : e \in Touching(Ground(1), calls.seen[hypatia.t + 1])} = {Sat(3), Sat(0)}

\* C40: the active edge set is periodic in time: the set of active edges at
\* t + P equals the set at t, with P = ring_period * crosslink_period * n_sats.
C40_LinksPeriodic ==
    \A t \in 0..(Len(calls.seen) - 1) :
        t + LinkSpan(hypatia.cfg) < Len(calls.seen)
            => Range(calls.seen[t + LinkSpan(hypatia.cfg) + 1]) = Range(calls.seen[t + 1])

\* C40 witness: the links were looked at one span after a time at which they
\* differ from those of the step before and the step after, with a ring
\* period, a crosslink period and a window above one
C40_Witness ==
    /\ hypatia.cfg.ring_period > 1 /\ hypatia.cfg.crosslink_period > 1
    /\ hypatia.cfg.crosslink_window > 1 /\ hypatia.cfg.n_sats > 2
    /\ Len(calls.seen) = LinkSpan(hypatia.cfg) + 2
    /\ Range(calls.seen[2]) # Range(calls.seen[1])
    /\ Range(calls.seen[2]) # Range(calls.seen[3])
    /\ Range(calls.seen[LinkSpan(hypatia.cfg) + 2]) = Range(calls.seen[2])

(***************************************************************************)
(* HypatiaStub against HypatiaScheduleSim                                  *)
(***************************************************************************)
\* C38: with outage_p = congestion_p = 0, the same edges at every step and
\* the same injections, HypatiaStub and HypatiaScheduleSim invoke the same
\* delivery and drop callbacks (same packets, steps, reasons and order) and
\* hold the same packets, with the same injection times, in the same order
\* in their queues after every step.
C38_SameCallbacksAndQueue ==
    /\ calls.stub_cbs = calls.sched_cbs
    /\ calls.sched.t = hypatia.t
    /\ calls.sched.queue = [i \in DOMAIN hypatia.queue |->
                               <<hypatia.queue[i].t_inject, hypatia.queue[i].pkt>>]

\* C38 witness: both simulators have dropped one packet for age, delivered
\* another, and one of the two was kept in the queue by an earlier step
C38_Witness ==
    /\ \E i \in DOMAIN calls.sched_cbs : calls.sched_cbs[i].reason = "ttl"
    /\ \E i \in DOMAIN calls.sched_cbs :
          /\ calls.sched_cbs[i].cb = "delivery"
          /\ calls.sched_cbs[i].t > calls.sched_cbs[i].pkt.meta.id + 1
    /\ \E i \in DOMAIN calls.stub_cbs :
          \E j \in DOMAIN calls.queue : calls.queue[j].pkt = calls.stub_cbs[i].pkt

(***************************************************************************)
(* run_trial, repeated on one simulator                                    *)
(***************************************************************************)
\* C39: when run_trial is called repeatedly with the same simulator, each
\* call's metrics count only the packets injected in that call: delivered +
\* dropped <= injected and completed <= total_jobs in every returned dict,
\* and the callbacks registered by the first call do not run for the second
\* call's packets.
C39_TrialsIsolated ==
    /\ \A i \in DOMAIN result :
          /\ result[i].delivered + result[i].dropped <= result[i].injected
          /\ result[i].completed <= result[i].total_jobs
    /\ calls.stale = <<>>

====
